---------------------------- MODULE Spec2Model ----------------------------
(***************************************************************************)
(* A model of the Sunday Pub Walks bot: the Post Log (logs/posts.jsonl),   *)
(* the duplicate-avoidance retry loop (generateWalk), the selector         *)
(* (generateBestWalk) and the publication pipeline                         *)
(* (publishSundayWalkPost -> postToInstagram -> logPost).                  *)
(*                                                                         *)
(* One action per await point of the JavaScript: the code between two      *)
(* awaits runs to completion on the single-threaded event loop, so it is   *)
(* one atomic step here.  External collaborators (the AI, the weather and  *)
(* image services, Instagram, the file system) answer nondeterministically.*)
(***************************************************************************)
EXTENDS Integers, Sequences, FiniteSets, TLC

(***************************************************************************)
(* Bounds of the model.                                                    *)
(***************************************************************************)
\* Number of invocations (pipeline runs and direct calls) in one behaviour.
MaxRuns == 2
\* Largest maxAttempts passed to a direct call of generateWalk.
MaxK == 3
\* Largest options passed to a direct call of generateBestWalk.
MaxOptions == 2

(***************************************************************************)
(* Program constants.                                                      *)
(***************************************************************************)
\* generateWalk(maxAttempts = 5, attempt = 1)
DefaultMaxAttempts == 5
\* publishSundayWalkPost calls generateBestWalk(1)
PipelineOptions == 1
\* validateCaption: const maxLength = 2200
MaxCaptionLength == 2200

\* The two slots in which an invocation can be in flight.
Slots == {1, 2}

\* Real-world pub names the AI can propose.
Pubs == {"The Crown", "The Anchor"}

(***************************************************************************)
(* JavaScript values.  A value is a record whose only field names its      *)
(* type, so that values of different types are unequal.                    *)
(***************************************************************************)
Undefined == [undef |-> TRUE]
Null == [null |-> TRUE]
Str(s) == [str |-> s]
Num(n) == [num |-> n]
Arr(items) == [arr |-> items]
Obj(fields) == [obj |-> fields]

\* Boolean(v) / !v : "", 0, null and undefined are falsy; arrays and objects
\* are truthy even when empty.
Truthy(v) ==
    IF "str" \in DOMAIN v THEN v.str # ""
    ELSE IF "num" \in DOMAIN v THEN v.num # 0
    ELSE IF "arr" \in DOMAIN v THEN TRUE
    ELSE IF "obj" \in DOMAIN v THEN TRUE
    ELSE FALSE

\* obj[field] : a missing property reads as undefined.
Get(o, field) == IF field \in DOMAIN o THEN o[field] ELSE Undefined

\* value.prop on an arbitrary value: undefined unless value is an object
\* that has the property (null and undefined are excluded by the callers).
Prop(v, field) == IF "obj" \in DOMAIN v THEN Get(v.obj, field) ELSE Undefined

\* value.length of an array.
Length(v) == IF "arr" \in DOMAIN v THEN Len(v.arr) ELSE 0

\* value.length < n on a truthy value: arrays and strings have a length;
\* on a number or an object .length is undefined and undefined < n is false.
LengthBelow(v, n) ==
    IF "arr" \in DOMAIN v THEN Len(v.arr) < n
    ELSE IF "str" \in DOMAIN v THEN Len(v.str) < n
    ELSE FALSE

\* { ...a, ...b } : the properties of b override those of a.
Spread(a, b) ==
    [f \in (DOMAIN a) \cup (DOMAIN b) |-> IF f \in DOMAIN b THEN b[f] ELSE a[f]]

(***************************************************************************)
(* JSON.stringify / JSON.parse of one log record.  stringify drops the     *)
(* properties whose value is undefined; the text of a record is kept as    *)
(* [json |-> object].  A text that is not a complete JSON document (the    *)
(* empty string, a truncated record) is [raw |-> ...] and does not parse.  *)
(***************************************************************************)
JSONstringify(o) ==
    [json |-> [f \in {g \in DOMAIN o : o[g] # Undefined} |-> o[f]]]

JSONparses(text) == "json" \in DOMAIN text

JSONparse(text) == text.json

EmptyText == [raw |-> ""]

(***************************************************************************)
(* What the AI collaborator can answer.                                    *)
(***************************************************************************)
TitleOf(p) == IF p = "The Crown" THEN "Crown Jewels Ramble" ELSE "Anchors Away"

\* walk_title.toLowerCase().replace(/[^a-z0-9]+/g, '-').replace(/(^-|-$)/g, '')
SlugOf(title) ==
    IF title = "Crown Jewels Ramble" THEN "crown-jewels-ramble"
    ELSE IF title = "Anchors Away" THEN "anchors-away"
    ELSE "walk"

\* A response with the exact structure the prompt asks for.
ValidWalkData(p) ==
    [ walk_title           |-> Str(TitleOf(p)),
      area                 |-> Str("Hampstead Heath, North London"),
      area_short           |-> Str("Hampstead Heath"),
      start_point          |-> Str("Hampstead station"),
      end_pub_name         |-> Str(p),
      distance_km          |-> Num(5),
      duration_minutes     |-> Num(75),
      highlights           |-> Arr(<<"h1", "h2", "h3">>),
      landmarks_for_prompt |-> Arr(<<"l1", "l2", "l3">>),
      location_coords      |-> Obj([lat |-> Num(51), lng |-> Num(-1)]),
      directions           |-> Arr(<<"d1", "d2", "d3", "d4", "d5">>) ]

\* The same response with too few direction steps.
ShortWalkData(p) ==
    [ValidWalkData(p) EXCEPT !.directions = Arr(<<"d1", "d2", "d3">>)]

\* A response that lacks the pub name.
NoPubWalkData ==
    [f \in (DOMAIN ValidWalkData("The Crown")) \ {"end_pub_name"} |->
        ValidWalkData("The Crown")[f]]

\* The content of the AI's message: a JSON object, or text that is no JSON.
AIContents ==
    {JSONstringify(ValidWalkData(p)) : p \in Pubs}
    \cup {JSONstringify(ShortWalkData(p)) : p \in Pubs}
    \cup {JSONstringify(NoPubWalkData), [raw |-> "I cannot help with that"]}


(***************************************************************************)
(* Results of a call: a value returned or an error thrown.                 *)
(***************************************************************************)
Returned(v) == [ok |-> TRUE, value |-> v]
Thrown(msg) == [ok |-> FALSE, error |-> msg]

ErrExhausted == "Failed to generate a unique pub after maximum attempts"
ErrNoWalks == "Failed to generate any walks"
ErrNoKey == "OPENAI_API_KEY environment variable is not set"
ErrNoCreds == "Instagram credentials not configured"

(***************************************************************************)
(* formatWalkData(walkData): adds id and slug, then validates.             *)
(***************************************************************************)
RequiredFields ==
    << "walk_title", "area", "area_short", "start_point",
       "end_pub_name", "distance_km", "duration_minutes",
       "highlights", "landmarks_for_prompt", "location_coords", "directions" >>

\* The first required field of walk that is falsy, or 0 when there is none.
FirstMissing(walk) ==
    LET bad == {n \in 1..Len(RequiredFields) : ~Truthy(Get(walk, RequiredFields[n]))}
    IN  IF bad = {} THEN 0 ELSE CHOOSE n \in bad : \A m \in bad : n <= m

\* Mutant: the number of direction steps is not checked.
formatWalkDataLax(walkData, now) ==
    LET title == Get(walkData, "walk_title") IN
    IF "str" \notin DOMAIN title
    THEN Thrown("TypeError: walk_title.toLowerCase")
    ELSE
      LET walk == Spread([id   |-> Str("walk-" \o ToString(now)),
                          slug |-> Str(SlugOf(title.str))], walkData)
          miss == FirstMissing(walk)
      IN  IF miss # 0
          THEN Thrown("Generated walk missing required field: " \o RequiredFields[miss])
          ELSE IF ~Truthy(Prop(walk.location_coords, "lat"))
                  \/ ~Truthy(Prop(walk.location_coords, "lng"))
          THEN Thrown("Generated walk has invalid coordinates")
          ELSE IF LengthBelow(walk.highlights, 2)
          THEN Thrown("Walk must have at least 2 highlights")
          ELSE Returned(walk)

formatWalkData(walkData, now) ==
    LET title == Get(walkData, "walk_title") IN
    IF "str" \notin DOMAIN title
    THEN \* walkData.walk_title.toLowerCase() on a value that is no string
         Thrown("TypeError: walk_title.toLowerCase")
    ELSE
      LET walk == Spread([id   |-> Str("walk-" \o ToString(now)),
                          slug |-> Str(SlugOf(title.str))], walkData)
          miss == FirstMissing(walk)
      IN  IF miss # 0
          THEN Thrown("Generated walk missing required field: " \o RequiredFields[miss])
          ELSE IF ~Truthy(Prop(walk.location_coords, "lat"))
                  \/ ~Truthy(Prop(walk.location_coords, "lng"))
          THEN Thrown("Generated walk has invalid coordinates")
          ELSE IF LengthBelow(walk.highlights, 2)
          THEN Thrown("Walk must have at least 2 highlights")
          ELSE IF LengthBelow(walk.directions, 4)
          THEN Thrown("Walk must have at least 4 direction steps")
          ELSE Returned(walk)

(***************************************************************************)
(* The Post Log file logs/posts.jsonl: whether it exists, and the pieces   *)
(* written to it, in order.  A piece is the text of one record followed by *)
(* a newline or, after a write that was cut short, the beginning of a      *)
(* record without its newline.                                             *)
(***************************************************************************)
NoFile == [exists |-> FALSE, lines |-> <<>>]

\* What a write that was cut short leaves in the file.
TornText == [raw |-> "{\"timestamp\":", torn |-> TRUE]

\* A torn piece followed by a complete record: one line that does not parse.
GluedText == [raw |-> "{\"timestamp\":{\"timestamp\":...}"]

IsTorn(text) == "torn" \in DOMAIN text

\* The lines the pieces make up: a torn piece has no newline, so it runs
\* into the piece written after it.
RECURSIVE GlueLines(_)
GlueLines(pieces) ==
    IF Len(pieces) < 2 THEN pieces
    ELSE IF IsTorn(pieces[1])
    THEN GlueLines(<<IF IsTorn(pieces[2]) THEN TornText ELSE GluedText>>
                   \o Tail(Tail(pieces)))
    ELSE <<pieces[1]>> \o GlueLines(Tail(pieces))

\* data.trim().split('\n') : the empty file splits into one empty string.
SplitLines(file) ==
    IF file.lines = <<>> THEN <<EmptyText>> ELSE GlueLines(file.lines)

\* [...new Set(values)] : each value once, in order of first occurrence.
RECURSIVE Distinct(_)
Distinct(values) ==
    IF values = <<>> THEN <<>>
    ELSE LET front == Distinct(SubSeq(values, 1, Len(values) - 1))
             last  == values[Len(values)]
         IN  IF \E n \in 1..Len(front) : front[n] = last
             THEN front ELSE Append(front, last)

\* Mutant: .filter(Boolean) is missing.
getUsedPubsUnfiltered(file) ==
    IF ~file.exists THEN <<>>
    ELSE
      LET lines == SplitLines(file) IN
      IF \E n \in 1..Len(lines) : ~JSONparses(lines[n]) THEN <<>>
      ELSE Distinct([n \in 1..Len(lines) |-> Get(JSONparse(lines[n]), "pubName")])

\* getUsedPubs(): any error (no file, a line that does not parse) is caught
\* and answered with the empty list.
getUsedPubs(file) ==
    IF ~file.exists THEN <<>>
    ELSE
      LET lines == SplitLines(file) IN
      IF \E n \in 1..Len(lines) : ~JSONparses(lines[n]) THEN <<>>
      ELSE
        LET posts == [n \in 1..Len(lines) |-> JSONparse(lines[n])]
            names == [n \in 1..Len(posts) |-> Get(posts[n], "pubName")]
        IN  Distinct(SelectSeq(names, Truthy))

\* usedPubs.includes(value)
Includes(usedPubs, value) == \E n \in 1..Len(usedPubs) : usedPubs[n] = value

\* The record logPost builds for a walk and a publish result.
LogEntry(walk, result, now) ==
    [ timestamp       |-> Str("t" \o ToString(now)),
      walkId          |-> Get(walk, "id"),
      walkTitle       |-> Get(walk, "walk_title"),
      slug            |-> Get(walk, "slug"),
      pubName         |-> Get(walk, "end_pub_name"),
      area            |-> Get(walk, "area_short"),
      instagramPostId |-> Get(result, "id"),
      success         |-> [bool |-> TRUE] ]

\* Mutant: fs.writeFile instead of fs.appendFile.
AppendFileOverwrites(file, entry) ==
    [exists |-> TRUE, lines |-> <<JSONstringify(entry)>>]

\* fs.appendFile(logFile, JSON.stringify(logEntry) + '\n')
AppendFile(file, entry) ==
    [exists |-> TRUE, lines |-> Append(file.lines, JSONstringify(entry))]

\* fs.appendFile cut short (the process dies, the disk fills up): only the
\* beginning of the record reaches the file.
TearFile(file) == [exists |-> TRUE, lines |-> Append(file.lines, TornText)]

\* The pubName values of the complete records of the log, in order.
LogPubNames(file) ==
    LET ok == SelectSeq(SplitLines(file), JSONparses)
    IN  [n \in 1..Len(ok) |-> Get(JSONparse(ok[n]), "pubName")]

\* validateCaption(caption): false exactly when the caption is too long.
validateCaption(captionLength) == ~(captionLength > MaxCaptionLength)

\* Mutant: a pub is reported as used multiple times from its first visit on.
showUsedPubsFlagsAll(file) ==
    IF ~file.exists THEN [message |-> "No posts yet!"]
    ELSE
      LET lines == SplitLines(file) IN
      IF \E n \in 1..Len(lines) : ~JSONparses(lines[n])
      THEN [message |-> "Error reading logs"]
      ELSE
        LET names == SelectSeq([n \in 1..Len(lines) |->
                                  Get(JSONparse(lines[n]), "pubName")], Truthy)
            pubMap == {names[n] : n \in 1..Len(names)}
            visits(p) == Cardinality({n \in 1..Len(names) : names[n] = p})
        IN  [ total      |-> Len(lines),
              visits     |-> [p \in pubMap |-> visits(p)],
              unique     |-> Cardinality(pubMap),
              flagged    |-> {p \in pubMap : visits(p) > 0},
              duplicates |-> Cardinality({p \in pubMap : visits(p) > 0}) ]

\* showUsedPubs(): what it prints.  A missing file is reported as "no posts
\* yet", any other error (a line that does not parse) as an error; otherwise
\* the number of posts, the visits of each pub (pubMap: the posts with a
\* truthy pubName, grouped by it), the number of distinct pubs (pubMap.size)
\* and the pubs with more than one visit.
showUsedPubs(file) ==
    IF ~file.exists THEN [message |-> "No posts yet!"]
    ELSE
      LET lines == SplitLines(file) IN
      IF \E n \in 1..Len(lines) : ~JSONparses(lines[n])
      THEN [message |-> "Error reading logs"]
      ELSE
        LET names == SelectSeq([n \in 1..Len(lines) |->
                                  Get(JSONparse(lines[n]), "pubName")], Truthy)
            pubMap == {names[n] : n \in 1..Len(names)}
            visits(p) == Cardinality({n \in 1..Len(names) : names[n] = p})
        IN  [ total      |-> Len(lines),
              visits     |-> [p \in pubMap |-> visits(p)],
              unique     |-> Cardinality(pubMap),
              flagged    |-> {p \in pubMap : visits(p) > 1},
              duplicates |-> Cardinality({p \in pubMap : visits(p) > 1}) ]

(***************************************************************************)
(* State.                                                                  *)
(***************************************************************************)
\* How an invocation of generateWalk ended ("returned" or the error), with
\* its counters at that moment.
GwOutcome(rec, result) ==
    [ result |-> result, aiCalls |-> rec.aiCalls, collisions |-> rec.collisions,
      maxAttempts |-> rec.maxAttempts, attempt |-> rec.attempt ]

NoOutcome ==
    [ result |-> "", aiCalls |-> 0, collisions |-> 0, maxAttempts |-> 0,
      attempt |-> 0 ]

VARIABLES
    env,          \* process.env: NODE_ENV and which credentials are set
    logFile,      \* logs/posts.jsonl
    igPosts,      \* the posts Instagram has published, in order
    run,          \* per slot: the invocation in flight or its outcome
    clock,        \* Date.now()
    nRuns,        \* invocations started so far
    openaiClient, \* the lazily created OpenAI client (TRUE once created)
    http          \* the HTTP server's latest answer to a /trigger request

vars == <<env, logFile, igPosts, run, clock, nRuns, openaiClient, http>>

\* "crashed": the invocation threw, nobody caught it and the process ended.
Terminal == {"idle", "returned", "threw", "killed", "crashed"}

NoRequest == [status |-> 0, secret |-> Undefined]

IdleRun ==
    [ pc            |-> "idle",
      entry         |-> "none",       \* the exported function that was called
      invoker       |-> "",           \* who called it: "cron", "http" or ""
      maxAttempts   |-> 0,
      attempt       |-> 0,
      options       |-> 0,
      i             |-> 0,
      walks         |-> <<>>,
      usedPubs      |-> <<>>,         \* the list read in the current attempt
      walk          |-> Undefined,    \* the proposal returned / selected
      weather       |-> "none",
      captionLength |-> 0,
      isValid       |-> TRUE,
      image         |-> FALSE,
      containerId   |-> Undefined,
      creationId    |-> Undefined,    \* creation_id sent to media_publish
      result        |-> Undefined,    \* what media_publish answered
      logEntry      |-> Undefined,
      retval        |-> Undefined,    \* what publishSundayWalkPost returned
      error         |-> "",
      aiCalls       |-> 0,            \* AI calls of the current generateWalk
      trace         |-> Undefined,    \* the requests sent, where they are kept
      collisions    |-> 0,            \* its answers that named a used pub
      lastContent   |-> Undefined,    \* the answer to its latest AI call
      usedAtAccept  |-> <<>>,         \* per accepted walk: the list it was
                                      \* checked against
      firstWalk     |-> Undefined,    \* the first walk a generateWalk returned
      gwEnded       |-> 0,            \* invocations of generateWalk that ended
      gwLast        |-> NoOutcome,    \* how the latest of them ended
      published     |-> FALSE,        \* media_publish succeeded in this run
      appended      |-> 0,            \* records this run appended to the log
      logAtStart    |-> NoFile ]      \* the log when the invocation started

\* The requests a run has sent, for the runs that keep them: the prompt of
\* the current attempt and the numbers of AI, image and publish requests.
NoTrace == [prompt |-> Undefined, aiTotal |-> 0, imageCalls |-> 0, publishCalls |-> 0]

\* One more request of this kind was sent.
Counted(trace, kind) ==
    IF trace = Undefined THEN trace ELSE [trace EXCEPT ![kind] = @ + 1]

NewRun(entry, options, file) ==
    [IdleRun EXCEPT !.entry = entry, !.options = options, !.logAtStart = file]

InFlight(r) == run[r].pc \notin Terminal

\* The invocation ends: returned, threw or killed.  What only the running
\* code holds is dropped.
\* Mutant: the manual trigger calls publishSundayWalkPost() without .catch,
\* so a rejection is unhandled and ends the process.
OutcomeUnhandled(rec, how) ==
    IF how = "threw" /\ rec.invoker = "http" THEN "crashed" ELSE how

\* What an invocation that ends in `how` leaves behind: the scheduler's
\* try/catch and the manual trigger's .catch() log what
\* publishSundayWalkPost throws, and the process goes on.
Outcome(rec, how) == how

Finish(rec, how, err) ==
    [rec EXCEPT !.pc = Outcome(rec, how), !.error = err, !.i = 0, !.walks = <<>>,
                !.weather = "none", !.captionLength = 0, !.isValid = TRUE,
                !.image = FALSE, !.containerId = Undefined,
                !.creationId = Undefined,
                !.logEntry = Undefined]

(***************************************************************************)
(* generateBestWalk and generateWalk, as far as they run without awaiting. *)
(***************************************************************************)
\* Mutant: when no walk was generated the pipeline goes on regardless.
GbwThrowContinues(rec, err) ==
    IF rec.entry = "generateBestWalk"
    THEN Finish(rec, "threw", err)
    ELSE [rec EXCEPT !.error = err, !.pc = "fetchWeatherSummary"]

\* generateBestWalk throws: publishSundayWalkPost logs and rethrows it.
\* Mutant: the empty list of walks is not noticed and nothing is thrown.
GbwThrowNothing(rec, err) == Finish(rec, "returned", "")

GbwThrow(rec, err) == Finish(rec, "threw", err)

\* Mutant: the walk generated last is selected.
SelectedWalkLast(walks) == walks[Len(walks)]

\* const selectedWalk = walks[0]
SelectedWalk(walks) == walks[1]

\* generateBestWalk returns selectedWalk; the pipeline goes on to the weather.
GbwReturn(rec, walk) ==
    IF rec.entry = "generateBestWalk"
    THEN Finish([rec EXCEPT !.walk = walk, !.usedAtAccept = <<@[1]>>],
                "returned", "")
    ELSE [rec EXCEPT !.walk = walk, !.usedAtAccept = <<@[1]>>,
                     !.pc = "fetchWeatherSummary"]

\* if (attempt > maxAttempts) throw
\* Mutant: the check lets one attempt too many through.
ExhaustedLate(attempt, maxAttempts) == attempt > maxAttempts + 1

Exhausted(attempt, maxAttempts) == attempt > maxAttempts

RECURSIVE generateWalk(_, _, _), GwThrow(_, _), GbwLoop(_)

\* generateWalk(maxAttempts, attempt) up to its first await, getUsedPubs().
generateWalk(rec, maxAttempts, attempt) ==
    LET r1 == [rec EXCEPT !.maxAttempts = maxAttempts, !.attempt = attempt]
    IN  IF Exhausted(attempt, maxAttempts)
        THEN GwThrow(r1, ErrExhausted)
        ELSE [r1 EXCEPT !.pc = "getUsedPubs"]

\* generateWalk throws: its catch logs and rethrows, through every level of
\* the recursion, to the caller.  generateBestWalk catches, warns and goes
\* on with the next option (no pause).
GwThrow(rec, err) ==
    LET r1 == [rec EXCEPT !.gwEnded = @ + 1, !.gwLast = GwOutcome(rec, err)]
    IN  IF rec.entry = "generateWalk"
        THEN Finish(r1, "threw", err)
        ELSE GbwLoop([r1 EXCEPT !.i = @ + 1])

\* Mutant: the loop runs once more than asked for.
GbwLoopOneMore(rec) ==
    IF rec.i <= rec.options
    THEN generateWalk([rec EXCEPT !.aiCalls = 0, !.collisions = 0,
                                  !.lastContent = Undefined],
                      DefaultMaxAttempts, 1)
    ELSE IF rec.walks = <<>>
    THEN GbwThrow(rec, ErrNoWalks)
    ELSE GbwReturn(rec, SelectedWalk(rec.walks))

\* for (let i = 0; i < options; i++) { ... } and what follows the loop.
GbwLoop(rec) ==
    IF rec.i < rec.options
    THEN generateWalk([rec EXCEPT !.aiCalls = 0, !.collisions = 0,
                                  !.lastContent = Undefined],
                      DefaultMaxAttempts, 1)
    ELSE IF rec.walks = <<>>
    THEN GbwThrow(rec, ErrNoWalks)
    ELSE GbwReturn(rec, SelectedWalk(rec.walks))

\* generateWalk returns a walk.
GwReturn(rec, walk) ==
    LET r0 == [rec EXCEPT !.gwEnded = @ + 1,
                          !.gwLast = GwOutcome(rec, "returned"),
                          !.usedAtAccept = Append(@, rec.usedPubs),
                          !.firstWalk = IF @ = Undefined THEN walk ELSE @]
    IN
    IF rec.entry = "generateWalk"
    THEN Finish([r0 EXCEPT !.walk = walk], "returned", "")
    ELSE LET r1 == [r0 EXCEPT !.walks = Append(@, walk)]
         IN  IF r1.i < r1.options - 1
             THEN [r1 EXCEPT !.pc = "gbw_sleep"]
             ELSE GbwLoop([r1 EXCEPT !.i = @ + 1])

\* The name of a pub without regard to case, punctuation and whitespace.
NormalizedName(value) ==
    IF value \in {Str("the crown"), Str("The Crown."), Str("The Crown ")}
    THEN Str("The Crown")
    ELSE value

\* Mutant: the collision check compares normalized names.
AlreadyUsedNormalized(usedPubs, walkData) ==
    \E n \in 1..Len(usedPubs) :
        NormalizedName(usedPubs[n]) = NormalizedName(Get(walkData, "end_pub_name"))

ExclusionHeading == "IMPORTANT - DO NOT USE THESE PUBS (already posted):"

ExclusionClosing == "You MUST choose a different pub that we haven't featured before."

\* Mutant: the prompt never carries the exclusion list.
buildWalkGenerationPromptPlain(usedPubs) == [pubExclusion |-> <<>>]

\* `- ${p}` : the line of the exclusion section that names the pub p.
ExclusionItem(p) == [dash |-> p]

\* buildWalkGenerationPrompt(usedPubs): the lines of the exclusion section
\* (none when the list is empty); the rest of the prompt is fixed text.
\* One line `- ${p}` for each used pub, joined by newlines.
buildWalkGenerationPrompt(usedPubs) ==
    [pubExclusion |->
        IF Len(usedPubs) > 0
        THEN <<[text |-> ExclusionHeading]>>
             \o [n \in 1..Len(usedPubs) |-> ExclusionItem(usedPubs[n])]
             \o <<[text |-> ""], [text |-> ExclusionClosing]>>
        ELSE <<>>]

\* Mutant: the collision check is missing.
AlreadyUsedNever(usedPubs, walkData) == FALSE

\* Mutant: the collision check is inverted.
AlreadyUsedNegated(usedPubs, walkData) ==
    ~Includes(usedPubs, Get(walkData, "end_pub_name"))

\* if (usedPubs.includes(walkData.end_pub_name))
AlreadyUsed(usedPubs, walkData) == Includes(usedPubs, Get(walkData, "end_pub_name"))

ErrAIRequest == "OpenAI request failed"

ErrJSON == "SyntaxError: JSON.parse"

\* Mutant: a failed request to the AI is retried like a collision.
OnAIErrorRetries(rec) == generateWalk(rec, rec.maxAttempts, rec.attempt + 1)

\* openai.chat.completions.create rejects: the catch of generateWalk logs
\* and rethrows.
OnAIError(rec) == GwThrow(rec, ErrAIRequest)

\* Mutant: the recursive call passes attempt instead of attempt + 1.
OnAIContentSameAttempt(rec, content, now) ==
    IF ~JSONparses(content)
    THEN GwThrow(rec, "SyntaxError: JSON.parse")
    ELSE
      LET walkData == JSONparse(content) IN
      IF AlreadyUsed(rec.usedPubs, walkData)
      THEN generateWalk([rec EXCEPT !.collisions = @ + 1],
                        rec.maxAttempts, rec.attempt)
      ELSE LET f == formatWalkData(walkData, now)
           IN  IF f.ok THEN GwReturn(rec, f.value) ELSE GwThrow(rec, f.error)

\* Mutant: a response that fails validation is retried like a collision.
OnAIContentRetryInvalid(rec, content, now) ==
    IF ~JSONparses(content)
    THEN GwThrow(rec, "SyntaxError: JSON.parse")
    ELSE
      LET walkData == JSONparse(content) IN
      IF AlreadyUsed(rec.usedPubs, walkData)
      THEN generateWalk([rec EXCEPT !.collisions = @ + 1],
                        rec.maxAttempts, rec.attempt + 1)
      ELSE LET f == formatWalkData(walkData, now)
           IN  IF f.ok THEN GwReturn(rec, f.value)
               ELSE generateWalk(rec, rec.maxAttempts, rec.attempt + 1)

\* generateWalk after the AI answered with `content`:
\* JSON.parse, the collision check, then formatWalkData.
OnAIContent(rec, content, now) ==
    IF ~JSONparses(content)
    THEN GwThrow(rec, "SyntaxError: JSON.parse")
    ELSE
      LET walkData == JSONparse(content) IN
      IF AlreadyUsed(rec.usedPubs, walkData)
      THEN generateWalk([rec EXCEPT !.collisions = @ + 1],
                        rec.maxAttempts, rec.attempt + 1)
      ELSE LET f == formatWalkData(walkData, now)
           IN  IF f.ok THEN GwReturn(rec, f.value) ELSE GwThrow(rec, f.error)

\* The answer reaches formatWalkData, which reads Date.now().
ReadsClock(rec, content) ==
    JSONparses(content) /\ ~AlreadyUsed(rec.usedPubs, JSONparse(content))

(***************************************************************************)
(* The publication pipeline, as far as it runs without awaiting.           *)
(***************************************************************************)
\* if (process.env.NODE_ENV === 'development')
DevelopmentMode(e) == e.NODE_ENV = Str("development")

\* postToInstagram up to its first await: the credentials check, then the
\* request that creates the media container.
postToInstagram(rec, e) ==
    IF ~e.INSTAGRAM_CREDS
    THEN Finish(rec, "threw", ErrNoCreds)
    ELSE [rec EXCEPT !.pc = "createMediaContainer"]

\* What happens inside fetchWeatherSummary: no OPENWEATHER_API_KEY, the
\* request to the weather API fails, the answer has no forecast for the
\* coming Sunday, or it has one.
WeatherOutcomes == {"no_key", "request_fails", "no_sunday", "forecast"}

ErrWeatherCoords == "Cannot destructure property 'lat'"

ErrWeatherRequest == "Error fetching weather"

\* const { lat, lng } = walk.location_coords : throws on undefined and null.
Destructurable(v) == v # Undefined /\ v # Null

\* Mutant: the catch block of fetchWeatherSummary rethrows.
fetchWeatherSummaryRethrows(walk, outcome) ==
    IF ~Destructurable(Get(walk, "location_coords"))
    THEN [threw |-> TRUE, error |-> ErrWeatherCoords]
    ELSE IF outcome = "request_fails"
    THEN [threw |-> TRUE, error |-> ErrWeatherRequest]
    ELSE [threw |-> FALSE,
          weather |-> IF outcome = "forecast" THEN "forecast" ELSE "mock"]

\* fetchWeatherSummary(walk): the forecast, or getMockWeather() when there
\* is no API key, when the request throws, or when no forecast is for Sunday.
fetchWeatherSummary(walk, outcome) ==
    IF ~Destructurable(Get(walk, "location_coords"))
    THEN [threw |-> TRUE, error |-> ErrWeatherCoords]
    ELSE IF outcome = "no_key" THEN [threw |-> FALSE, weather |-> "mock"]
    ELSE IF outcome = "request_fails" THEN [threw |-> FALSE, weather |-> "mock"]
    ELSE IF outcome = "no_sunday" THEN [threw |-> FALSE, weather |-> "mock"]
    ELSE [threw |-> FALSE, weather |-> "forecast"]

ErrCaptionTooLong == "Caption too long"

\* Mutant: a caption over the limit aborts the run.
OnWeatherAbortsLongCaption(rec, res, len) ==
    IF res.threw
    THEN Finish(rec, "threw", res.error)
    ELSE IF ~validateCaption(len)
    THEN Finish(rec, "threw", ErrCaptionTooLong)
    ELSE [rec EXCEPT !.weather = res.weather, !.captionLength = len,
                     !.isValid = TRUE, !.trace = Counted(@, "imageCalls"),
                     !.pc = "generateIllustration"]

\* publishSundayWalkPost after fetchWeatherSummary settled: the caption is
\* built and measured (a long caption only warns) and the image is requested.
OnWeather(rec, res, len) ==
    IF res.threw
    THEN Finish(rec, "threw", res.error)
    ELSE [rec EXCEPT !.weather = res.weather, !.captionLength = len,
                     !.isValid = validateCaption(len),
                     !.trace = Counted(@, "imageCalls"),
                     !.pc = "generateIllustration"]

ErrImage == "Error generating image"

\* Mutant: the failure of generateIllustration is only logged and the run
\* goes on to publish.
OnImageIgnoresFailure(rec, ok, e) ==
    LET r1 == [rec EXCEPT !.image = ok]
    IN  IF DevelopmentMode(e)
        THEN [r1 EXCEPT !.pc = "dev_writeFile"]
        ELSE postToInstagram(r1, e)

\* publishSundayWalkPost after generateIllustration settled.
OnImage(rec, ok, e) ==
    IF ~ok
    THEN Finish(rec, "threw", ErrImage)
    ELSE LET r1 == [rec EXCEPT !.image = TRUE]
         IN  IF DevelopmentMode(e)
             THEN [r1 EXCEPT !.pc = "dev_writeFile"]
             ELSE postToInstagram(r1, e)

\* Mutant: a failed write of the caption file is reported in the returned
\* record instead of being thrown.
OnDevWriteReportsFailure(rec, ok) ==
    Finish([rec EXCEPT !.retval =
               [success |-> ok, mode |-> "development",
                walk |-> Get(rec.walk, "walk_title"), image |-> TRUE]],
           "returned", "")

\* The development branch after fsp.writeFile(captionPath, ...) settled.
OnDevWrite(rec, ok) ==
    IF ok
    THEN Finish([rec EXCEPT !.retval =
                    [success |-> TRUE, mode |-> "development",
                     walk |-> Get(rec.walk, "walk_title"), image |-> TRUE]],
                "returned", "")
    ELSE Finish(rec, "threw", "Error writing caption file")

\* logPost(walk, result) up to its first await, fs.mkdir.
logPost(rec, now) ==
    [rec EXCEPT !.logEntry = LogEntry(rec.walk, rec.result, now),
                !.pc = "log_mkdir"]

\* Mutant: the post is logged as soon as the container exists, before
\* media_publish.
OnContainerLogsFirst(rec, ok, id) ==
    IF ok
    THEN logPost([rec EXCEPT !.containerId = Str(id),
                             !.result = [id |-> Str("pending")]], 0)
    ELSE Finish(rec, "threw", "Error posting to Instagram: media")

\* Mutant: a failed creation of the container is ignored and media_publish
\* is called without a container.
OnContainerIgnoresFailure(rec, ok, id) ==
    [rec EXCEPT !.containerId = IF ok THEN Str(id) ELSE Undefined,
                !.pc = "ig_sleep"]

\* postToInstagram after createMediaContainer settled: containerId is the
\* id of the response.
OnContainer(rec, ok, id) ==
    IF ok
    THEN [rec EXCEPT !.containerId = Str(id), !.pc = "ig_sleep"]
    ELSE Finish(rec, "threw", "Error posting to Instagram: media")

\* publishMediaContainer({ accountId, accessToken, containerId }): the
\* request to media_publish is sent with creation_id: containerId.
publishMediaContainer(rec) ==
    [rec EXCEPT !.creationId = rec.containerId,
                !.trace = Counted(@, "publishCalls"),
                !.pc = "publishMediaContainer"]

\* Mutant: the error of media_publish is swallowed and the post is logged.
OnPublishLogsOnFailure(rec, ok, postId, now) ==
    IF ok
    THEN logPost([rec EXCEPT !.result = [id |-> Str(postId)],
                             !.published = TRUE], now)
    ELSE logPost([rec EXCEPT !.result = [id |-> Undefined]], now)

\* postToInstagram after publishMediaContainer settled; on success
\* publishSundayWalkPost calls logPost(walk, result).
OnPublish(rec, ok, postId, now) ==
    IF ok
    THEN logPost([rec EXCEPT !.result = [id |-> Str(postId)],
                             !.published = TRUE], now)
    ELSE Finish(rec, "threw", "Error posting to Instagram: media_publish")

\* publishSundayWalkPost returns its production record.
PipelineReturn(rec) ==
    Finish([rec EXCEPT !.retval =
               [success |-> TRUE, mode |-> "production",
                walk |-> Get(rec.walk, "walk_title"),
                postId |-> Get(rec.result, "id")]],
           "returned", "")

\* logPost returns: to publishSundayWalkPost, or to whoever called it.
LogPostReturn(rec) ==
    IF rec.entry = "logPost"
    THEN Finish(rec, "returned", "")
    ELSE PipelineReturn(rec)

\* logPost after fs.mkdir settled: an error is caught and only logged.
OnMkdir(rec, ok) ==
    IF ok THEN [rec EXCEPT !.pc = "log_appendFile"] ELSE LogPostReturn(rec)

\* logPost after fs.appendFile settled: an error is caught and only logged.
OnAppend(rec, ok) ==
    LogPostReturn([rec EXCEPT !.appended = IF ok THEN @ + 1 ELSE @])

CaptionLengths == {MaxCaptionLength, MaxCaptionLength + 1}

Envs ==
    [ NODE_ENV        : {Undefined, Str("development"), Str("production")},
      OPENAI_API_KEY  : BOOLEAN,
      INSTAGRAM_CREDS : BOOLEAN ]

(***************************************************************************)
(* Initial state: a fresh deployment, no log file yet.                     *)
(***************************************************************************)
Init ==
    /\ env \in Envs
    /\ logFile = NoFile
    /\ igPosts = <<>>
    /\ run = [s \in Slots |-> IdleRun]
    /\ clock = 1
    /\ nRuns = 0
    /\ openaiClient = FALSE
    /\ http = NoRequest

\* Runs are executed one after another: nothing else is in flight.
NoneInFlight == \A s \in Slots : ~InFlight(s)

\* An invocation takes the lowest slot that is free (the slots are alike).
FreeSlot(r) == ~InFlight(r) /\ \A s \in Slots : s < r => InFlight(s)

\* The process is up: no uncaught error has ended it.
ProcessUp == \A s \in Slots : run[s].pc # "crashed"

CanStart(r) == ProcessUp /\ NoneInFlight /\ FreeSlot(r) /\ nRuns < MaxRuns

(***************************************************************************)
(* Actions.                                                                *)
(***************************************************************************)
\* The cron task of the scheduler fires and calls publishSundayWalkPost().
Trigger(r) ==
    /\ CanStart(r)
    /\ run' = [run EXCEPT ![r] =
                 GbwLoop([NewRun("publishSundayWalkPost", PipelineOptions, logFile)
                             EXCEPT !.invoker = "cron"])]
    /\ nRuns' = nRuns + 1
    /\ UNCHANGED <<env, http, logFile, igPosts, clock, openaiClient>>

\* const TRIGGER_SECRET = process.env.TRIGGER_SECRET || 'change-me-in-production'
TRIGGER_SECRET(e) ==
    IF Truthy(e.TRIGGER_SECRET) THEN e.TRIGGER_SECRET
    ELSE Str("change-me-in-production")

\* Mutant: the secret is compared with the environment variable itself,
\* without the default.
UnauthorizedNoDefault(providedSecret, e) == providedSecret # e.TRIGGER_SECRET

\* if (providedSecret !== TRIGGER_SECRET) : answer 401
Unauthorized(providedSecret, e) == providedSecret # TRIGGER_SECRET(e)

\* A request GET /trigger?secret=... arrives; url.searchParams.get('secret')
\* is null when the parameter is missing.  (Requests are taken while no
\* run is in flight, like every start of a run here.)
HttpTrigger(r, providedSecret) ==
    /\ ProcessUp /\ NoneInFlight /\ FreeSlot(r)
    /\ IF Unauthorized(providedSecret, env)
       THEN /\ http' = [status |-> 401, secret |-> providedSecret]
            /\ UNCHANGED <<env, logFile, igPosts, run, clock, nRuns, openaiClient>>
       ELSE /\ nRuns < MaxRuns
            /\ http' = [status |-> 200, secret |-> providedSecret]
            /\ run' = [run EXCEPT ![r] =
                         GbwLoop([NewRun("publishSundayWalkPost", PipelineOptions,
                                         logFile) EXCEPT !.invoker = "http"])]
            /\ nRuns' = nRuns + 1
            /\ UNCHANGED <<env, logFile, igPosts, clock, openaiClient>>

\* A caller calls generateWalk(k).
CallGenerateWalk(r, k) ==
    /\ CanStart(r)
    /\ run' = [run EXCEPT ![r] = generateWalk(NewRun("generateWalk", 0, logFile), k, 1)]
    /\ nRuns' = nRuns + 1
    /\ UNCHANGED <<env, http, logFile, igPosts, clock, openaiClient>>

\* A caller calls generateBestWalk(n).
CallGenerateBestWalk(r, n) ==
    /\ CanStart(r)
    /\ run' = [run EXCEPT ![r] = GbwLoop(NewRun("generateBestWalk", n, logFile))]
    /\ nRuns' = nRuns + 1
    /\ UNCHANGED <<env, http, logFile, igPosts, clock, openaiClient>>

\* Mutant: the list is read in the first attempt only and kept for the
\* later ones.
UsedPubsReadOnce(rec, file) ==
    IF rec.attempt = 1 THEN getUsedPubs(file) ELSE rec.usedPubs

\* const usedPubs = await getUsedPubs() : every level of the recursion
\* reads the log itself.
UsedPubsOfAttempt(rec, file) == getUsedPubs(file)

\* getUsedPubs() settles; generateWalk builds the prompt, gets the client
\* (which throws without an API key) and sends the request to the AI.
GetUsedPubsDone(r) ==
    /\ run[r].pc = "getUsedPubs"
    /\ LET r1 == [run[r] EXCEPT !.usedPubs = UsedPubsOfAttempt(run[r], logFile)]
       IN  IF ~openaiClient /\ ~env.OPENAI_API_KEY
           THEN /\ run' = [run EXCEPT ![r] = GwThrow(r1, ErrNoKey)]
                /\ UNCHANGED openaiClient
           ELSE /\ run' = [run EXCEPT ![r] =
                            [r1 EXCEPT !.pc = "openai_chat",
                                       !.lastContent = Undefined,
                                       !.aiCalls = @ + 1]]
                /\ openaiClient' = TRUE
    /\ UNCHANGED <<env, http, logFile, igPosts, clock, nRuns>>

\* The AI request fails (transport error, rate limit, ...).
AIFails(r) ==
    /\ run[r].pc = "openai_chat"
    /\ run' = [run EXCEPT ![r] = OnAIError(run[r])]
    /\ UNCHANGED <<env, http, logFile, igPosts, clock, nRuns, openaiClient>>

\* The AI answers.  Between two reads of Date.now() for the id of a walk
\* (formatWalkData) the clock has advanced.
AIResponds(r, content) ==
    /\ run[r].pc = "openai_chat"
    /\ run' = [run EXCEPT ![r] =
                 OnAIContent([run[r] EXCEPT !.lastContent = content],
                             content, clock + 1)]
    /\ clock' = IF ReadsClock(run[r], content) THEN clock + 1 ELSE clock
    /\ UNCHANGED <<env, http, logFile, igPosts, nRuns, openaiClient>>

\* The pause between two options of generateBestWalk is over.
GbwSleepDone(r) ==
    /\ run[r].pc = "gbw_sleep"
    /\ run' = [run EXCEPT ![r] = GbwLoop([run[r] EXCEPT !.i = @ + 1])]
    /\ UNCHANGED <<env, http, logFile, igPosts, clock, nRuns, openaiClient>>

\* fetchWeatherSummary settles; the caption is built and measured, and the
\* image request is sent.
WeatherDone(r, outcome, len) ==
    /\ run[r].pc = "fetchWeatherSummary"
    /\ run' = [run EXCEPT ![r] =
                 OnWeather(run[r], fetchWeatherSummary(run[r].walk, outcome), len)]
    /\ UNCHANGED <<env, http, logFile, igPosts, clock, nRuns, openaiClient>>

\* generateIllustration settles.
ImageDone(r, ok) ==
    /\ run[r].pc = "generateIllustration"
    /\ run' = [run EXCEPT ![r] = OnImage(run[r], ok, env)]
    /\ UNCHANGED <<env, http, logFile, igPosts, clock, nRuns, openaiClient>>

\* Development mode: the caption file is written (or not).
DevWriteDone(r, ok) ==
    /\ run[r].pc = "dev_writeFile"
    /\ run' = [run EXCEPT ![r] = OnDevWrite(run[r], ok)]
    /\ UNCHANGED <<env, http, logFile, igPosts, clock, nRuns, openaiClient>>

\* createMediaContainer settles.
ContainerDone(r, ok) ==
    /\ run[r].pc = "createMediaContainer"
    /\ run' = [run EXCEPT ![r] =
                 OnContainer(run[r], ok,
                             "container-" \o ToString(Len(igPosts) + 1))]
    /\ UNCHANGED <<env, http, logFile, igPosts, clock, nRuns, openaiClient>>

\* sleep(2000) is over; media_publish is requested.
IgSleepDone(r) ==
    /\ run[r].pc = "ig_sleep"
    /\ run' = [run EXCEPT ![r] = publishMediaContainer(run[r])]
    /\ UNCHANGED <<env, http, logFile, igPosts, clock, nRuns, openaiClient>>

\* publishMediaContainer settles; on success the post is on Instagram.
PublishDone(r, ok) ==
    /\ run[r].pc = "publishMediaContainer"
    /\ LET postId == "ig-" \o ToString(Len(igPosts) + 1)
       IN  /\ run' = [run EXCEPT ![r] = OnPublish(run[r], ok, postId, clock)]
           /\ igPosts' = IF ok
                         THEN Append(igPosts,
                                [pubName |-> Get(run[r].walk, "end_pub_name"),
                                 id |-> postId])
                         ELSE igPosts
    /\ UNCHANGED <<env, http, logFile, clock, nRuns, openaiClient>>

\* fs.mkdir('logs') settles.
MkdirDone(r, ok) ==
    /\ run[r].pc = "log_mkdir"
    /\ run' = [run EXCEPT ![r] = OnMkdir(run[r], ok)]
    /\ UNCHANGED <<env, http, logFile, igPosts, clock, nRuns, openaiClient>>

\* fs.appendFile settles: the record is in the file, or the write failed.
AppendDone(r, ok) ==
    /\ run[r].pc = "log_appendFile"
    /\ run' = [run EXCEPT ![r] = OnAppend(run[r], ok)]
    /\ logFile' = IF ok THEN AppendFile(logFile, run[r].logEntry) ELSE logFile
    /\ UNCHANGED <<env, http, igPosts, clock, nRuns, openaiClient>>

\* fs.appendFile is cut short.  Either the process dies in the middle of the
\* write, or the write fails after part of the record was written (the disk
\* is full) and logPost catches the error.
AppendTorn(r, crash) ==
    /\ run[r].pc = "log_appendFile"
    /\ logFile' = TearFile(logFile)
    /\ IF crash
       THEN /\ run' = [s \in Slots |->
                        IF InFlight(s) THEN Finish(run[s], "killed", "")
                        ELSE run[s]]
            /\ openaiClient' = FALSE
       ELSE /\ run' = [run EXCEPT ![r] = OnAppend(run[r], FALSE)]
            /\ UNCHANGED openaiClient
    /\ UNCHANGED <<env, http, igPosts, clock, nRuns>>

\* The walks logPost is called with: walks that generateWalk returned, a
\* walk without end_pub_name and one whose end_pub_name is empty.
WalkKinds == Pubs \cup {"no pub", "empty pub"}

LoggedWalk(kind, now) ==
    LET w(p) == formatWalkData(ValidWalkData(p), now).value IN
    IF kind \in Pubs THEN w(kind)
    ELSE IF kind = "no pub"
    THEN [f \in (DOMAIN w("The Crown")) \ {"end_pub_name"} |-> w("The Crown")[f]]
    ELSE [w("The Anchor") EXCEPT !.end_pub_name = Str("")]

\* A caller calls logPost(walk, result).
CallLogPost(r, kind) ==
    /\ CanStart(r)
    /\ run' = [run EXCEPT ![r] =
                 logPost([NewRun("logPost", 0, logFile) EXCEPT
                             !.walk = LoggedWalk(kind, clock),
                             !.result = [id |-> Str("ig-" \o ToString(nRuns + 1))]],
                         clock)]
    /\ nRuns' = nRuns + 1
    /\ UNCHANGED <<env, http, logFile, igPosts, clock, openaiClient>>

\* show-pubs.js is run: showUsedPubs() reads the log.
CallShowUsedPubs(r) ==
    /\ CanStart(r)
    /\ run' = [run EXCEPT ![r] =
                 [NewRun("showUsedPubs", 0, logFile) EXCEPT !.pc = "show_readFile"]]
    /\ nRuns' = nRuns + 1
    /\ UNCHANGED <<env, http, logFile, igPosts, clock, openaiClient>>

\* fs.readFile settles (or rejects) and showUsedPubs prints its report.
ShowUsedPubsDone(r) ==
    /\ run[r].pc = "show_readFile"
    /\ run' = [run EXCEPT ![r] =
                 Finish([run[r] EXCEPT !.retval = showUsedPubs(logFile)],
                        "returned", "")]
    /\ UNCHANGED <<env, http, logFile, igPosts, clock, nRuns, openaiClient>>

\* The process is terminated (a signal, a crash, a redeploy) and started
\* again: what was in flight is gone, the files and Instagram stay.
ProcessExit ==
    /\ \E s \in Slots : InFlight(s)
    /\ run' = [s \in Slots |->
                 IF InFlight(s) THEN Finish(run[s], "killed", "") ELSE run[s]]
    /\ openaiClient' = FALSE
    /\ UNCHANGED <<env, http, logFile, igPosts, clock, nRuns>>

Next ==
    \/ \E r \in Slots : Trigger(r)
    \/ \E r \in Slots, k \in 0..MaxK : CallGenerateWalk(r, k)
    \/ \E r \in Slots, n \in 0..MaxOptions : CallGenerateBestWalk(r, n)
    \/ \E r \in Slots : GetUsedPubsDone(r)
    \/ \E r \in Slots : AIFails(r)
    \/ \E r \in Slots, content \in AIContents : AIResponds(r, content)
    \/ \E r \in Slots : GbwSleepDone(r)
    \/ \E r \in Slots, o \in WeatherOutcomes, len \in CaptionLengths :
          WeatherDone(r, o, len)
    \/ \E r \in Slots, ok \in BOOLEAN : ImageDone(r, ok)
    \/ \E r \in Slots, ok \in BOOLEAN : DevWriteDone(r, ok)
    \/ \E r \in Slots, ok \in BOOLEAN : ContainerDone(r, ok)
    \/ \E r \in Slots : IgSleepDone(r)
    \/ \E r \in Slots, ok \in BOOLEAN : PublishDone(r, ok)
    \/ \E r \in Slots, ok \in BOOLEAN : MkdirDone(r, ok)
    \/ \E r \in Slots, ok \in BOOLEAN : AppendDone(r, ok)
    \/ ProcessExit

Spec == Init /\ [][Next]_vars

\* Every collaborator call that is outstanding is eventually answered.
Fairness ==
    /\ WF_vars(\E r \in Slots : GetUsedPubsDone(r))
    /\ WF_vars(\E r \in Slots : AIFails(r) \/ \E c \in AIContents : AIResponds(r, c))

FairSpec == Spec /\ Fairness

(***************************************************************************)
(* The Post Log on its own: production, all keys set, a log that is        *)
(* missing or holds the record of one earlier post; logPost is called with *)
(* arbitrary walks, its write can be cut short, and the log is read by     *)
(* generateWalk, by the pipeline and by showUsedPubs.                      *)
(***************************************************************************)
ProductionEnv ==
    [ NODE_ENV |-> Str("production"), OPENAI_API_KEY |-> TRUE,
      INSTAGRAM_CREDS |-> TRUE ]

InitialLogs ==
    {NoFile} \cup
    {AppendFile(NoFile, LogEntry(w, [id |-> Str("ig-0")], 0)) :
        w \in {formatWalkData(ValidWalkData("The Crown"), 0).value}}

LogInit ==
    /\ env = ProductionEnv
    /\ logFile \in InitialLogs
    /\ igPosts = <<>>
    /\ run = [s \in Slots |-> IdleRun]
    /\ clock = 1
    /\ nRuns = 0
    /\ openaiClient = FALSE
    /\ http = NoRequest

LogNext ==
    \/ \E r \in Slots, kind \in WalkKinds : CallLogPost(r, kind)
    \/ \E r \in Slots, ok \in BOOLEAN : MkdirDone(r, ok)
    \/ \E r \in Slots, ok \in BOOLEAN : AppendDone(r, ok)
    \/ \E r \in Slots, crash \in BOOLEAN : AppendTorn(r, crash)
    \/ \E r \in Slots : CallShowUsedPubs(r)
    \/ \E r \in Slots : ShowUsedPubsDone(r)
    \/ \E r \in Slots, k \in 0..MaxK : CallGenerateWalk(r, k)
    \/ \E r \in Slots : Trigger(r)
    \/ \E r \in Slots : GetUsedPubsDone(r)
    \/ \E r \in Slots : AIFails(r)
    \/ \E r \in Slots, content \in AIContents : AIResponds(r, content)
    \/ \E r \in Slots, o \in WeatherOutcomes, len \in CaptionLengths :
          WeatherDone(r, o, len)
    \/ \E r \in Slots, ok \in BOOLEAN : ImageDone(r, ok)
    \/ \E r \in Slots, ok \in BOOLEAN : ContainerDone(r, ok)
    \/ \E r \in Slots : IgSleepDone(r)
    \/ \E r \in Slots, ok \in BOOLEAN : PublishDone(r, ok)
    \/ ProcessExit

LogSpec == LogInit /\ [][LogNext]_vars

(***************************************************************************)
(* The long-running process with its two invokers: the cron task and the   *)
(* /trigger endpoint of the HTTP server.  Production, all keys set;        *)
(* TRIGGER_SECRET is set or not.                                           *)
(***************************************************************************)
ProvidedSecrets ==
    {Null, Str(""), Str("s3cret"), Str("change-me-in-production")}

TriggerEnvs ==
    [ NODE_ENV        : {Str("production")},
      OPENAI_API_KEY  : {TRUE},
      INSTAGRAM_CREDS : {TRUE},
      TRIGGER_SECRET  : {Undefined, Str(""), Str("s3cret")} ]

TriggerInit ==
    /\ env \in TriggerEnvs
    /\ logFile = NoFile
    /\ igPosts = <<>>
    /\ run = [s \in Slots |-> IdleRun]
    /\ clock = 1
    /\ nRuns = 0
    /\ openaiClient = FALSE
    /\ http = NoRequest

TriggerNext ==
    \/ \E r \in Slots : Trigger(r)
    \/ \E r \in Slots, secret \in ProvidedSecrets : HttpTrigger(r, secret)
    \/ \E r \in Slots : GetUsedPubsDone(r)
    \/ \E r \in Slots : AIFails(r)
    \/ \E r \in Slots, content \in AIContents : AIResponds(r, content)
    \/ \E r \in Slots, o \in WeatherOutcomes, len \in CaptionLengths :
          WeatherDone(r, o, len)
    \/ \E r \in Slots, ok \in BOOLEAN : ImageDone(r, ok)
    \/ \E r \in Slots, ok \in BOOLEAN : ContainerDone(r, ok)
    \/ \E r \in Slots : IgSleepDone(r)
    \/ \E r \in Slots, ok \in BOOLEAN : PublishDone(r, ok)
    \/ \E r \in Slots, ok \in BOOLEAN : MkdirDone(r, ok)
    \/ \E r \in Slots, ok \in BOOLEAN : AppendDone(r, ok)
    \/ ProcessExit

TriggerSpec == TriggerInit /\ [][TriggerNext]_vars

(***************************************************************************)
(* formatWalkData on its own, applied to answers of every shape: fields    *)
(* that are 0, null, missing, empty, or of another type than asked for.    *)
(***************************************************************************)
Latitudes == {Num(51), Num(0), Null}

Longitudes == {Num(-1), Num(0)}

Distances == {Num(5), Num(0)}

Durations == {Num(75), Num(0)}

HighlightValues ==
    {Arr(<<"h1", "h2">>), Arr(<<"h1">>), Str("lovely views")}

DirectionValues == {Arr(<<"d1", "d2", "d3", "d4">>), Arr(<<"d1", "d2", "d3">>)}

\* The answer with these values, with or without the pub name.
Proposal(lat, lng, km, mins, hl, dirs, named) ==
    LET w == [ValidWalkData("The Crown") EXCEPT
                 !.location_coords = Obj([lat |-> lat, lng |-> lng]),
                 !.distance_km = km, !.duration_minutes = mins,
                 !.highlights = hl, !.directions = dirs]
    IN  IF named THEN w
        ELSE [f \in (DOMAIN w) \ {"end_pub_name"} |-> w[f]]

\* A caller (generateWalk) calls formatWalkData(walkData); the outcome is
\* kept in the run record.
CallFormatWalkData(r, walkData) ==
    /\ CanStart(r)
    /\ LET rec == [NewRun("formatWalkData", 0, logFile) EXCEPT
                      !.lastContent = JSONstringify(walkData)]
           f == formatWalkData(walkData, clock + 1)
       IN  run' = [run EXCEPT ![r] =
                     IF f.ok
                     THEN Finish([rec EXCEPT !.walk = f.value], "returned", "")
                     ELSE Finish(rec, "threw", f.error)]
    /\ clock' = clock + 1
    /\ nRuns' = nRuns + 1
    /\ UNCHANGED <<env, http, logFile, igPosts, openaiClient>>

ValidationInit ==
    /\ env = [NODE_ENV |-> Str("production"), OPENAI_API_KEY |-> TRUE,
              INSTAGRAM_CREDS |-> TRUE]
    /\ logFile = NoFile
    /\ igPosts = <<>>
    /\ run = [s \in Slots |-> IdleRun]
    /\ clock = 1
    /\ nRuns = 0
    /\ openaiClient = FALSE
    /\ http = NoRequest

ValidationNext ==
    \E r \in Slots, lat \in Latitudes, lng \in Longitudes, km \in Distances,
       mins \in Durations, hl \in HighlightValues, dirs \in DirectionValues,
       named \in BOOLEAN :
        CallFormatWalkData(r, Proposal(lat, lng, km, mins, hl, dirs, named))

ValidationSpec == ValidationInit /\ [][ValidationNext]_vars

(***************************************************************************)
(* The two invokers without the restriction to one run at a time: the cron *)
(* handler and the /trigger handler call publishSundayWalkPost() whatever  *)
(* else is running, and nothing in the program holds a lock.               *)
(***************************************************************************)
\* Mutant: a run starts only while no other run is in flight.
MayStartLocked(r) ==
    ProcessUp /\ NoneInFlight /\ FreeSlot(r) /\ nRuns < MaxRuns

\* An invoker may call publishSundayWalkPost() at any time.
MayStart(r) == ProcessUp /\ FreeSlot(r) /\ nRuns < MaxRuns

\* The scheduled task fires, possibly during another run.
OverlapCron(r) ==
    /\ MayStart(r)
    /\ run' = [run EXCEPT ![r] =
                 GbwLoop([NewRun("publishSundayWalkPost", PipelineOptions, logFile)
                             EXCEPT !.invoker = "cron"])]
    /\ nRuns' = nRuns + 1
    /\ UNCHANGED <<env, http, logFile, igPosts, clock, openaiClient>>

\* A request GET /trigger?secret=... arrives, possibly during another run.
OverlapHttp(r, providedSecret) ==
    /\ ProcessUp /\ FreeSlot(r)
    /\ IF Unauthorized(providedSecret, env)
       THEN /\ http' = [status |-> 401, secret |-> providedSecret]
            /\ UNCHANGED <<env, logFile, igPosts, run, clock, nRuns, openaiClient>>
       ELSE /\ MayStart(r)
            /\ http' = [status |-> 200, secret |-> providedSecret]
            /\ run' = [run EXCEPT ![r] =
                         GbwLoop([NewRun("publishSundayWalkPost", PipelineOptions,
                                         logFile) EXCEPT !.invoker = "http"])]
            /\ nRuns' = nRuns + 1
            /\ UNCHANGED <<env, logFile, igPosts, clock, openaiClient>>

\* The log of a deployment that has published one post, at The Crown.
OneRecordLog ==
    AppendFile(NoFile,
               LogEntry(formatWalkData(ValidWalkData("The Crown"), 0).value,
                        [id |-> Str("ig-0")], 0))

\* The AI answers with well-formed proposals here.
ValidContents == {JSONstringify(ValidWalkData(p)) : p \in Pubs}

OverlapInit ==
    /\ env = [NODE_ENV |-> Str("production"), OPENAI_API_KEY |-> TRUE,
              INSTAGRAM_CREDS |-> TRUE, TRIGGER_SECRET |-> Str("s3cret")]
    /\ logFile = OneRecordLog
    /\ igPosts = <<>>
    /\ run = [s \in Slots |-> IdleRun]
    /\ clock = 1
    /\ nRuns = 0
    /\ openaiClient = FALSE
    /\ http = NoRequest

OverlapNext ==
    \/ \E r \in Slots : OverlapCron(r)
    \/ \E r \in Slots, secret \in {Null, Str("s3cret")} : OverlapHttp(r, secret)
    \/ \E r \in Slots : GetUsedPubsDone(r)
    \/ \E r \in Slots, content \in ValidContents : AIResponds(r, content)
    \/ \E r \in Slots : WeatherDone(r, "forecast", MaxCaptionLength)
    \/ \E r \in Slots : ImageDone(r, TRUE)
    \/ \E r \in Slots : ContainerDone(r, TRUE)
    \/ \E r \in Slots : IgSleepDone(r)
    \/ \E r \in Slots, ok \in BOOLEAN : PublishDone(r, ok)
    \/ \E r \in Slots : MkdirDone(r, TRUE)
    \/ \E r \in Slots : AppendDone(r, TRUE)

OverlapSpec == OverlapInit /\ [][OverlapNext]_vars

(***************************************************************************)
(* The weekly run with an AI that proposes names close to a used one.      *)
(***************************************************************************)
\* A used name, the same name in another case, with punctuation, with a
\* trailing blank, and another pub.
PubVariants == {"The Crown", "the crown", "The Crown.", "The Crown ", "The Anchor"}

VariantContents == {JSONstringify(ValidWalkData(p)) : p \in PubVariants}

DedupInit ==
    /\ env = [NODE_ENV |-> Str("production"), OPENAI_API_KEY |-> TRUE,
              INSTAGRAM_CREDS |-> TRUE]
    /\ logFile = OneRecordLog
    /\ igPosts = <<>>
    /\ run = [s \in Slots |-> IdleRun]
    /\ clock = 1
    /\ nRuns = 0
    /\ openaiClient = FALSE
    /\ http = NoRequest

DedupNext ==
    \/ \E r \in Slots : Trigger(r)
    \/ \E r \in Slots : GetUsedPubsDone(r)
    \/ \E r \in Slots, content \in VariantContents : AIResponds(r, content)
    \/ \E r \in Slots : WeatherDone(r, "forecast", MaxCaptionLength)
    \/ \E r \in Slots : ImageDone(r, TRUE)
    \/ \E r \in Slots : ContainerDone(r, TRUE)
    \/ \E r \in Slots : IgSleepDone(r)
    \/ \E r \in Slots : PublishDone(r, TRUE)
    \/ \E r \in Slots : MkdirDone(r, TRUE)
    \/ \E r \in Slots : AppendDone(r, TRUE)

DedupSpec == DedupInit /\ [][DedupNext]_vars

(***************************************************************************)
(* The weekly run with an AI whose answer may carry an "id" of its own.    *)
(***************************************************************************)
\* The answer the prompt asks for, and the same answer with an extra "id".
IdContents ==
    {JSONstringify(ValidWalkData(p)) : p \in Pubs}
    \cup {JSONstringify(Spread(ValidWalkData(p), [id |-> Str("walk-ai")])) : p \in Pubs}

IdInit ==
    /\ env = [NODE_ENV |-> Str("production"), OPENAI_API_KEY |-> TRUE,
              INSTAGRAM_CREDS |-> TRUE]
    /\ logFile = NoFile
    /\ igPosts = <<>>
    /\ run = [s \in Slots |-> IdleRun]
    /\ clock = 1
    /\ nRuns = 0
    /\ openaiClient = FALSE
    /\ http = NoRequest

IdNext ==
    \/ \E r \in Slots : Trigger(r)
    \/ \E r \in Slots : GetUsedPubsDone(r)
    \/ \E r \in Slots, content \in IdContents : AIResponds(r, content)
    \/ \E r \in Slots : WeatherDone(r, "forecast", MaxCaptionLength)
    \/ \E r \in Slots : ImageDone(r, TRUE)
    \/ \E r \in Slots : ContainerDone(r, TRUE)
    \/ \E r \in Slots : IgSleepDone(r)
    \/ \E r \in Slots : PublishDone(r, TRUE)
    \/ \E r \in Slots : MkdirDone(r, TRUE)
    \/ \E r \in Slots : AppendDone(r, TRUE)

IdSpec == IdInit /\ [][IdNext]_vars

(***************************************************************************)
(* generateBestWalk and the weekly run with their requests to the AI kept: *)
(* the prompt of the current attempt and the number of calls so far.  The  *)
(* log is missing or has one record, so that an answer can collide from    *)
(* the start.                                                              *)
(***************************************************************************)
\* A caller calls generateBestWalk(n).
TracedGenerateBestWalk(r, n) ==
    /\ CanStart(r)
    /\ run' = [run EXCEPT ![r] =
                 GbwLoop([NewRun("generateBestWalk", n, logFile)
                             EXCEPT !.trace = NoTrace])]
    /\ nRuns' = nRuns + 1
    /\ UNCHANGED <<env, http, logFile, igPosts, clock, openaiClient>>

\* The scheduler calls publishSundayWalkPost().
TracedTrigger(r) ==
    /\ CanStart(r)
    /\ run' = [run EXCEPT ![r] =
                 GbwLoop([NewRun("publishSundayWalkPost", PipelineOptions, logFile)
                             EXCEPT !.invoker = "cron", !.trace = NoTrace])]
    /\ nRuns' = nRuns + 1
    /\ UNCHANGED <<env, http, logFile, igPosts, clock, openaiClient>>

\* getUsedPubs() settles; generateWalk builds the prompt, gets the client
\* (which throws without an API key) and sends the request to the AI.  The
\* prompt and the request are kept.
TracedGetUsedPubsDone(r) ==
    /\ run[r].pc = "getUsedPubs"
    /\ LET used == UsedPubsOfAttempt(run[r], logFile)
           r1 == [run[r] EXCEPT !.usedPubs = used,
                                !.trace.prompt = buildWalkGenerationPrompt(used)]
       IN  IF ~openaiClient /\ ~env.OPENAI_API_KEY
           THEN /\ run' = [run EXCEPT ![r] = GwThrow(r1, ErrNoKey)]
                /\ UNCHANGED openaiClient
           ELSE /\ run' = [run EXCEPT ![r] =
                            [r1 EXCEPT !.pc = "openai_chat",
                                       !.lastContent = Undefined,
                                       !.aiCalls = @ + 1,
                                       !.trace.aiTotal = @ + 1]]
                /\ openaiClient' = TRUE
    /\ UNCHANGED <<env, http, logFile, igPosts, clock, nRuns>>

BudgetInit ==
    /\ env = ProductionEnv
    /\ logFile \in {NoFile, OneRecordLog}
    /\ igPosts = <<>>
    /\ run = [s \in Slots |-> IdleRun]
    /\ clock = 1
    /\ nRuns = 0
    /\ openaiClient = FALSE
    /\ http = NoRequest

BudgetNext ==
    \/ \E r \in Slots : TracedTrigger(r)
    \/ \E r \in Slots, n \in 0..MaxOptions : TracedGenerateBestWalk(r, n)
    \/ \E r \in Slots : TracedGetUsedPubsDone(r)
    \/ \E r \in Slots : AIFails(r)
    \/ \E r \in Slots, content \in AIContents : AIResponds(r, content)
    \/ \E r \in Slots : GbwSleepDone(r)
    \/ \E r \in Slots : WeatherDone(r, "forecast", MaxCaptionLength)
    \/ \E r \in Slots, ok \in BOOLEAN : ImageDone(r, ok)
    \/ \E r \in Slots, ok \in BOOLEAN : ContainerDone(r, ok)
    \/ \E r \in Slots : IgSleepDone(r)
    \/ \E r \in Slots, ok \in BOOLEAN : PublishDone(r, ok)
    \/ \E r \in Slots : MkdirDone(r, TRUE)
    \/ \E r \in Slots : AppendDone(r, TRUE)

BudgetSpec == BudgetInit /\ [][BudgetNext]_vars

(***************************************************************************)
(* The forecast fetchWeatherSummary picks.  A day is counted from the      *)
(* Sunday of the current week (day 0), so the weekday of day d is d % 7,   *)
(* as Date.getDay() gives it; a forecast entry is the local date and time  *)
(* of its dt.                                                              *)
(***************************************************************************)
getDay(date) == date % 7

\* Mutant: without `|| 7`, a Sunday is its own next Sunday.
getNextSundaySameDay(today) == today + ((7 - getDay(today)) % 7)

\* getNextSunday(): today plus (7 - today.getDay()) % 7 || 7 days.
getNextSunday(today) ==
    LET days == (7 - getDay(today)) % 7
    IN  today + (IF days = 0 THEN 7 ELSE days)

\* response.data.list.filter(item => same date as sunday)
SundayForecasts(list, sunday) == SelectSeq(list, LAMBDA item : item.date = sunday)

\* hour >= 11 && hour <= 13, hour being getHours() of the entry.
AroundMidday(f) == f.hour >= 11 /\ f.hour <= 13

\* fetchWeatherSummary after the forecast request has answered with `list`:
\* the mock when no entry is for Sunday, else the first entry around midday
\* or, when there is none, the first entry of Sunday.
PickForecast(today, list) ==
    LET sunday          == getNextSunday(today)
        sundayForecasts == SundayForecasts(list, sunday)
        midday          == SelectSeq(sundayForecasts, AroundMidday)
    IN  IF Len(sundayForecasts) = 0
        THEN [sunday |-> sunday, weather |-> "mock"]
        ELSE [sunday |-> sunday, weather |-> "forecast",
              forecast |-> IF midday # <<>> THEN midday[1] ELSE sundayForecasts[1]]

\* The days on which the run can take place, and the answers of the
\* forecast service: up to two entries, of Saturday or Sunday, early, at
\* noon, at half past one or in the afternoon.
Todays == 0..6

ForecastEntries ==
    [date : {6, 7}, hour : {9, 12, 13, 15}, minute : {0}]
    \cup [date : {7}, hour : {13}, minute : {30}]

ForecastLists ==
    {<<>>} \cup {<<a>> : a \in ForecastEntries}
    \cup {<<a, b>> : a \in ForecastEntries, b \in [date : {7}, hour : {9, 13, 15}, minute : {0, 30}]}

\* fetchWeatherSummary gets the forecast `list` on day `today`; what it
\* picks is kept in the run record.
CallPickForecast(r, today, list) ==
    /\ CanStart(r)
    /\ run' = [run EXCEPT ![r] =
                 Finish([NewRun("fetchWeatherSummary", 0, logFile) EXCEPT
                            !.retval = [today |-> today, list |-> list,
                                        picked |-> PickForecast(today, list)]],
                        "returned", "")]
    /\ nRuns' = nRuns + 1
    /\ UNCHANGED <<env, http, logFile, igPosts, clock, openaiClient>>

ForecastInit ==
    /\ env = ProductionEnv
    /\ logFile = NoFile
    /\ igPosts = <<>>
    /\ run = [s \in Slots |-> IdleRun]
    /\ clock = 1
    /\ nRuns = 0
    /\ openaiClient = FALSE
    /\ http = NoRequest

ForecastNext ==
    \E r \in Slots, today \in Todays, list \in ForecastLists :
        CallPickForecast(r, today, list)

ForecastSpec == ForecastInit /\ [][ForecastNext]_vars

(***************************************************************************)
(* verify-setup.js: the environment check and the three access checks.     *)
(***************************************************************************)
RequiredVars ==
    {"INSTAGRAM_ACCESS_TOKEN", "INSTAGRAM_ACCOUNT_ID", "OPENAI_API_KEY",
     "OPENWEATHER_API_KEY"}

\* checkEnvironmentVariables(): false when a required variable is not set
\* (`!value`: undefined or empty).
checkEnvironmentVariables(e) == \A k \in RequiredVars : Truthy(e[k])

\* checkInstagramAccess(): skipped without credentials; true when the Graph
\* API answers, false when the request fails (the catch returns false).
checkInstagramAccess(e, outcome) ==
    IF ~Truthy(e.INSTAGRAM_ACCESS_TOKEN) \/ ~Truthy(e.INSTAGRAM_ACCOUNT_ID)
    THEN FALSE
    ELSE outcome = "ok"

\* checkOpenAIAccess(): skipped without the key; returns hasDalle when the
\* model list is answered, false when the request fails.
checkOpenAIAccess(e, outcome) ==
    IF ~Truthy(e.OPENAI_API_KEY) THEN FALSE ELSE outcome = "dalle"

\* checkWeatherAccess(): skipped without the key; true when the weather is
\* answered, false when the request fails.
checkWeatherAccess(e, outcome) ==
    IF ~Truthy(e.OPENWEATHER_API_KEY) THEN FALSE ELSE outcome = "ok"

\* const allPassed = Object.values(results).every(v => v)
AllPassed(results) ==
    results.env /\ results.instagram /\ results.openai /\ results.weather

\* The summary verifySetup prints; then it returns.
Summary(rec) ==
    Finish([rec EXCEPT !.retval.report =
                          IF AllPassed(rec.retval.results)
                          THEN "All checks passed" ELSE "Some checks failed"],
           "returned", "")

\* Mutant: the verification ends at the first check that fails.
OnCheckStopsAtFailure(rec, check, result, next) ==
    LET r1 == [rec EXCEPT !.retval.results[check] = result,
                          !.retval.performed = Append(@, check)]
    IN  IF next = "summary" \/ ~result THEN Summary(r1) ELSE [r1 EXCEPT !.pc = next]

\* results.<check> = await check<Check>Access(); then the next check, or
\* the summary after the last one.
OnCheck(rec, check, result, next) ==
    LET r1 == [rec EXCEPT !.retval.results[check] = result,
                          !.retval.performed = Append(@, check)]
    IN  IF next = "summary" THEN Summary(r1) ELSE [r1 EXCEPT !.pc = next]

\* verify-setup.js is run: the environment check, and the first access
\* check only if it passed.
CallVerifySetup(r) ==
    /\ CanStart(r)
    /\ LET rec == [NewRun("verifySetup", 0, logFile) EXCEPT
                      !.retval = [results |-> [env |-> checkEnvironmentVariables(env),
                                               instagram |-> FALSE,
                                               openai |-> FALSE,
                                               weather |-> FALSE],
                                  performed |-> <<>>,
                                  report |-> ""]]
       IN  run' = [run EXCEPT ![r] =
                     IF rec.retval.results.env
                     THEN [rec EXCEPT !.pc = "checkInstagramAccess"]
                     ELSE Summary(rec)]
    /\ nRuns' = nRuns + 1
    /\ UNCHANGED <<env, http, logFile, igPosts, clock, openaiClient>>

\* The request of checkInstagramAccess settles.
InstagramChecked(r, outcome) ==
    /\ run[r].pc = "checkInstagramAccess"
    /\ run' = [run EXCEPT ![r] =
                 OnCheck(run[r], "instagram", checkInstagramAccess(env, outcome),
                         "checkOpenAIAccess")]
    /\ UNCHANGED <<env, http, logFile, igPosts, clock, nRuns, openaiClient>>

\* The request of checkOpenAIAccess settles.
OpenAIChecked(r, outcome) ==
    /\ run[r].pc = "checkOpenAIAccess"
    /\ run' = [run EXCEPT ![r] =
                 OnCheck(run[r], "openai", checkOpenAIAccess(env, outcome),
                         "checkWeatherAccess")]
    /\ UNCHANGED <<env, http, logFile, igPosts, clock, nRuns, openaiClient>>

\* The request of checkWeatherAccess settles.
WeatherChecked(r, outcome) ==
    /\ run[r].pc = "checkWeatherAccess"
    /\ run' = [run EXCEPT ![r] =
                 OnCheck(run[r], "weather", checkWeatherAccess(env, outcome),
                         "summary")]
    /\ UNCHANGED <<env, http, logFile, igPosts, clock, nRuns, openaiClient>>

\* A variable of .env: missing, empty or set.
VarValues == {Undefined, Str(""), Str("0123456789abcdef")}

SetupEnvs == [RequiredVars -> VarValues]

SetupInit ==
    /\ env \in SetupEnvs
    /\ logFile = NoFile
    /\ igPosts = <<>>
    /\ run = [s \in Slots |-> IdleRun]
    /\ clock = 1
    /\ nRuns = 0
    /\ openaiClient = FALSE
    /\ http = NoRequest

SetupNext ==
    \/ \E r \in Slots : CallVerifySetup(r)
    \/ \E r \in Slots, outcome \in {"ok", "fails"} : InstagramChecked(r, outcome)
    \/ \E r \in Slots, outcome \in {"dalle", "no_dalle", "fails"} :
          OpenAIChecked(r, outcome)
    \/ \E r \in Slots, outcome \in {"ok", "fails"} : WeatherChecked(r, outcome)

SetupSpec == SetupInit /\ [][SetupNext]_vars

(***************************************************************************)
(* Properties.                                                             *)
(***************************************************************************)
PipelineRun(r) == run[r].entry = "publishSundayWalkPost"

DirectGenerateWalk(r) == run[r].entry = "generateWalk"

\* What the specification calls structurally valid: every mandatory field
\* present, both coordinates present, at least 2 highlights and 4 directions.
StructurallyValid(w) ==
    /\ \A n \in 1..Len(RequiredFields) : Truthy(Get(w, RequiredFields[n]))
    /\ Truthy(Prop(Get(w, "location_coords"), "lat"))
    /\ Truthy(Prop(Get(w, "location_coords"), "lng"))
    /\ Length(Get(w, "highlights")) >= 2
    /\ Length(Get(w, "directions")) >= 4

ValidationErrors ==
    {"Generated walk missing required field: " \o RequiredFields[n] :
        n \in 1..Len(RequiredFields)}
    \cup {"TypeError: walk_title.toLowerCase",
          "Generated walk has invalid coordinates",
          "Walk must have at least 2 highlights",
          "Walk must have at least 4 direction steps"}

InstagramErrors ==
    {ErrNoCreds, "Error posting to Instagram: media",
     "Error posting to Instagram: media_publish"}

NeverRepeatsPubs ==
    \A a, b \in 1..Len(igPosts) :
        a # b => igPosts[a].pubName # igPosts[b].pubName

\* C3. Retry bound: an invocation of generateWalk(maxAttempts = k) makes at
\* most k AI calls; it fails with the exhausted-retries error only after
\* exactly k calls that all named a used pub, and whenever k calls have all
\* named a used pub it has failed with that error.
RetryBound ==
    \A r \in Slots :
        /\ run[r].aiCalls <= run[r].maxAttempts
        /\ run[r].gwEnded > 0 =>
              LET o == run[r].gwLast IN
              /\ o.aiCalls <= o.maxAttempts
              /\ o.result = ErrExhausted =>
                    o.aiCalls = o.maxAttempts /\ o.collisions = o.maxAttempts
              /\ o.collisions = o.maxAttempts => o.result = ErrExhausted
        /\ (InFlight(r) /\ run[r].pc # "openai_chat")
              => run[r].collisions < run[r].maxAttempts

\* C3 witness: generateWalk(MaxK) failed with the exhausted-retries error
\* after MaxK AI calls.
RetryBoundWitness ==
    \E r \in Slots :
        /\ DirectGenerateWalk(r) /\ run[r].maxAttempts = MaxK
        /\ run[r].pc = "threw" /\ run[r].error = ErrExhausted
        /\ run[r].aiCalls = MaxK

\* An invocation of generateWalk is in progress in slot r.
InGenerateWalk(r) == run[r].pc \in {"getUsedPubs", "openai_chat"}

\* The step is a retry: the AI answered and the same invocation reads the
\* log again.
RetryStep(r) ==
    /\ run[r].pc = "openai_chat" /\ run'[r].pc = "getUsedPubs"
    /\ run'[r].i = run[r].i

\* The step ends the invocation of generateWalk that was in progress.
EndStep(r) ==
    /\ InGenerateWalk(r)
    /\ ~(InGenerateWalk(r)' /\ run'[r].i = run[r].i)

\* C4. Retry termination: while generateWalk runs, the attempt counter stays
\* within 1..maxAttempts and each retry increases it by one; an invocation
\* ends by accepting a proposal (after attempt - 1 collisions), with the
\* exhausted-retries error or with another error (or the process is
\* terminated); and, provided every log read and AI call is answered, no
\* invocation is outstanding forever (generateBestWalk starts a bounded
\* number of them).
RetryTermination ==
    /\ [](\A r \in Slots : InGenerateWalk(r) =>
              run[r].attempt >= 1 /\ run[r].attempt <= run[r].maxAttempts)
    /\ [][\A r \in Slots :
            /\ RetryStep(r) => run'[r].attempt = run[r].attempt + 1
            /\ EndStep(r) =>
                 \/ run'[r].pc = "killed"
                 \/ /\ run'[r].gwEnded = run[r].gwEnded + 1
                    /\ LET o == run'[r].gwLast
                       IN  \/ o.result = "returned" /\ o.collisions = o.attempt - 1
                           \/ o.result = ErrExhausted
                           \/ o.result \notin {"returned", ErrExhausted}]_vars
    /\ \A r \in Slots : []<>(~InGenerateWalk(r))

\* C4 witness: an invocation ended by acceptance after its attempt counter
\* had been increased by a retry.
RetryTerminationWitness ==
    \E r \in Slots :
        /\ DirectGenerateWalk(r) /\ run[r].pc = "returned"
        /\ run[r].attempt >= 2

\* C5. Acceptance guarantee: a proposal that generateWalk returned is
\* structurally valid and its pub name is not in the list of used pubs read
\* in the attempt that produced it.
AcceptanceGuarantee ==
    \A r \in Slots :
        /\ \A n \in 1..Len(run[r].walks) :
              /\ StructurallyValid(run[r].walks[n])
              /\ ~Includes(run[r].usedAtAccept[n],
                           Get(run[r].walks[n], "end_pub_name"))
        /\ run[r].walk # Undefined =>
              /\ StructurallyValid(run[r].walk)
              /\ ~Includes(run[r].usedAtAccept[1],
                           Get(run[r].walk, "end_pub_name"))

\* C5 witness: generateWalk returned a proposal after an earlier answer had
\* named a pub of the (non-empty) used list.
AcceptanceWitness ==
    \E r \in Slots :
        /\ DirectGenerateWalk(r) /\ run[r].pc = "returned"
        /\ run[r].usedAtAccept # <<>> /\ run[r].usedAtAccept[1] # <<>>
        /\ run[r].collisions >= 1

\* The latest AI answer of the invocation in slot r parsed as JSON but is
\* not structurally valid.
LastAnswerInvalid(r) ==
    /\ run[r].lastContent # Undefined
    /\ JSONparses(run[r].lastContent)
    /\ ~StructurallyValid(JSONparse(run[r].lastContent))

LastAnswerUsed(r) ==
    Includes(run[r].usedPubs, Get(JSONparse(run[r].lastContent), "end_pub_name"))

NonProductionNeverPublishes ==
    env.NODE_ENV # Str("production") =>
        /\ igPosts = <<>>
        /\ logFile = NoFile
        /\ \A r \in Slots : ~run[r].published /\ run[r].appended = 0

\* C8. Publish failure does not log: logPost is not entered before
\* media_publish succeeded, and a run of publishSundayWalkPost that failed in
\* postToInstagram leaves the log as it found it and rethrows.
PublishFailureDoesNotLog ==
    \A r \in Slots :
        /\ ~run[r].published =>
              /\ run[r].logEntry = Undefined
              /\ run[r].pc \notin {"log_mkdir", "log_appendFile"}
              /\ run[r].appended = 0
        /\ (PipelineRun(r) /\ run[r].pc = "threw"
              /\ run[r].error \in InstagramErrors) =>
              /\ logFile = run[r].logAtStart
              /\ run[r].retval = Undefined

\* C8 witness: a production run threw because media_publish failed, after
\* its media container had been created.
PublishFailureWitness ==
    \E r \in Slots :
        /\ PipelineRun(r) /\ run[r].pc = "threw"
        /\ run[r].error = "Error posting to Instagram: media_publish"
        /\ ~run[r].published

\* C9. The log never overcounts successes: every complete record of the log
\* is the record of a post Instagram has published, no post has two records,
\* and a run appends at most one record, and none unless its media_publish
\* succeeded.
LogNeverOvercounts ==
    LET ok == SelectSeq(logFile.lines, JSONparses) IN
    /\ Len(ok) <= Len(igPosts)
    /\ \A n \in 1..Len(ok) :
          \E m \in 1..Len(igPosts) :
              /\ Get(JSONparse(ok[n]), "instagramPostId") = Str(igPosts[m].id)
              /\ Get(JSONparse(ok[n]), "pubName") = igPosts[m].pubName
    /\ \A n, m \in 1..Len(ok) :
          Get(JSONparse(ok[n]), "instagramPostId")
             = Get(JSONparse(ok[m]), "instagramPostId") => n = m
    /\ \A r \in Slots :
          run[r].appended <= (IF run[r].published THEN 1 ELSE 0)

\* C9 witness: the log holds the record of the one post Instagram has
\* published, and a later run that was interrupted after it had generated
\* its walk and before its publish completed has appended nothing.
LogNeverOvercountsWitness ==
    /\ Len(igPosts) = 1
    /\ Len(SelectSeq(logFile.lines, JSONparses)) = 1
    /\ \E r \in Slots :
          /\ PipelineRun(r) /\ run[r].pc = "killed"
          /\ run[r].walk # Undefined /\ ~run[r].published
          /\ run[r].appended = 0

\* C10 as stated. Every successful publish is logged exactly once: a run of
\* publishSundayWalkPost that returned after media_publish succeeded has
\* appended exactly one record to the log.
PublishLoggedExactlyOnce ==
    \A r \in Slots :
        (PipelineRun(r) /\ run[r].pc = "returned" /\ run[r].published)
            => run[r].appended = 1

IsPrefix(a, b) == Len(a) <= Len(b) /\ SubSeq(b, 1, Len(a)) = a

AllComplete(file) == \A n \in 1..Len(file.lines) : JSONparses(file.lines[n])

\* The non-empty pubName values of the complete records of the log.
LoggedPubs(file) ==
    LET names == LogPubNames(file)
    IN  {v \in {names[n] : n \in 1..Len(names)} : Truthy(v)}

\* The invocation in slot r has just read the log (it awaits the AI).
HasReadLog(r) == run[r].pc = "openai_chat"

\* C12. Log append-read round trip: when every piece of the log is a record
\* logPost appended in full, what getUsedPubs returned is exactly the set of
\* distinct non-empty pubName values of the log, each name once.
AppendReadRoundTrip ==
    \A r \in Slots :
        (HasReadLog(r) /\ AllComplete(logFile)) =>
            /\ {run[r].usedPubs[n] : n \in 1..Len(run[r].usedPubs)}
                  = LoggedPubs(logFile)
            /\ \A a, b \in 1..Len(run[r].usedPubs) :
                  run[r].usedPubs[a] = run[r].usedPubs[b] => a = b

\* C12 witness: records for the two pubs were appended to the log, and the
\* read returned exactly these two names.
RoundTripWitness ==
    \E r \in Slots :
        /\ HasReadLog(r) /\ AllComplete(logFile)
        /\ Len(logFile.lines) = 2
        /\ LoggedPubs(logFile) = {Str(p) : p \in Pubs}
        /\ Len(run[r].usedPubs) = 2

\* C13 as stated. Crash-safe reads: a read of a log that holds a partially
\* written record still yields the pub names of all its complete records.
\* (Violated: JSON.parse of the partial line throws inside getUsedPubs, whose
\* catch answers with the empty list.)
CrashSafeReads ==
    \A r \in Slots :
        HasReadLog(r) =>
            LoggedPubs(logFile) \subseteq
                {run[r].usedPubs[n] : n \in 1..Len(run[r].usedPubs)}

\* The latest AI answer of the invocation in slot r is a structurally valid
\* proposal.
LastAnswerValid(r) ==
    \E p \in Pubs : run[r].lastContent = JSONstringify(ValidWalkData(p))

\* C14. Missing log is a normal initial state: while no Post Log exists, the
\* read of the log answers with the empty list and generateWalk goes on to
\* ask the AI; a structurally valid answer is then accepted at once, on the
\* first attempt, whatever pub it names.
MissingLogIsNormal ==
    \A r \in Slots :
        (~run[r].logAtStart.exists /\ ~logFile.exists) =>
            /\ HasReadLog(r) => run[r].usedPubs = <<>> /\ run[r].attempt = 1
            /\ LastAnswerValid(r) =>
                  /\ run[r].gwEnded >= 1
                  /\ run[r].gwLast.result = "returned"
                  /\ run[r].gwLast.attempt = 1 /\ run[r].gwLast.aiCalls = 1
                  /\ DirectGenerateWalk(r) =>
                        /\ run[r].pc = "returned"
                        /\ Get(run[r].walk, "end_pub_name")
                              = Get(JSONparse(run[r].lastContent), "end_pub_name")

\* C14 witness: generateWalk was called while no log existed and returned
\* the proposal of its first attempt.
MissingLogWitness ==
    \E r \in Slots :
        /\ DirectGenerateWalk(r) /\ run[r].pc = "returned"
        /\ ~run[r].logAtStart.exists /\ ~logFile.exists
        /\ run[r].usedPubs = <<>> /\ run[r].attempt = 1

\* The invocation in slot r runs generateBestWalk (directly or as the first
\* step of the pipeline).
BestOfN(r) == run[r].entry \in {"generateBestWalk", "publishSundayWalkPost"}

\* generateBestWalk of slot r is over (and the process was not terminated).
BestOfNOver(r) ==
    \/ run[r].entry = "generateBestWalk" /\ run[r].pc \in {"returned", "threw"}
    \/ PipelineRun(r) /\ run[r].pc \notin {"idle", "killed", "getUsedPubs",
                                           "openai_chat", "gbw_sleep"}

\* C15. Best-of-N partial failure tolerance: when at least one of the runs
\* of generateWalk succeeded, generateBestWalk returns the proposal of the
\* first run that succeeded, and the error of no failed run is propagated.
BestOfNFirstSuccess ==
    \A r \in Slots :
        BestOfN(r) =>
            /\ run[r].walk # Undefined => run[r].walk = run[r].firstWalk
            /\ (BestOfNOver(r) /\ run[r].firstWalk # Undefined) =>
                  /\ run[r].walk = run[r].firstWalk
                  /\ run[r].error # ErrNoWalks
                  /\ run[r].entry = "generateBestWalk" =>
                        run[r].pc = "returned" /\ run[r].error = ""

\* C15 witness: generateBestWalk(2) returned the proposal of its first run
\* although its second run threw.
BestOfNFirstSuccessWitness ==
    \E r \in Slots :
        /\ run[r].entry = "generateBestWalk" /\ run[r].options = 2
        /\ run[r].pc = "returned" /\ run[r].gwEnded = 2
        /\ run[r].gwLast.result # "returned"
        /\ run[r].walk = run[r].firstWalk

\* C16. Best-of-N total failure: when none of the n runs of generateWalk
\* succeeded, generateBestWalk(n) throws the all-options-exhausted error and
\* returns no proposal, and a pipeline run fails with that error without
\* publishing; the error is thrown in no other case.
BestOfNTotalFailure ==
    \A r \in Slots :
        BestOfN(r) =>
            /\ (BestOfNOver(r) /\ run[r].firstWalk = Undefined) =>
                  /\ run[r].pc = "threw" /\ run[r].error = ErrNoWalks
                  /\ run[r].walk = Undefined /\ run[r].retval = Undefined
                  /\ run[r].gwEnded = run[r].options
                  /\ ~run[r].published
            /\ run[r].error = ErrNoWalks =>
                  run[r].firstWalk = Undefined /\ run[r].gwEnded = run[r].options

\* C16 witness: both runs of generateBestWalk(2) threw and generateBestWalk
\* threw the all-options-exhausted error.
BestOfNTotalFailureWitness ==
    \E r \in Slots :
        /\ run[r].entry = "generateBestWalk" /\ run[r].options = 2
        /\ run[r].pc = "threw" /\ run[r].error = ErrNoWalks
        /\ run[r].gwEnded = 2

\* A scheduled or a manual trigger arriving now starts a run in slot s.
TriggerStartsRun(s) ==
    /\ ENABLED (Trigger(s) /\ InFlight(s)' /\ run'[s].invoker = "cron")
    /\ ENABLED (HttpTrigger(s, TRIGGER_SECRET(env)) /\ InFlight(s)'
                   /\ run'[s].invoker = "http")

\* C17. A failed run never terminates the long-running process: when
\* publishSundayWalkPost threw in a run started by the scheduled or by the
\* manual trigger, the invoker has caught the error, the process is still
\* up, and a trigger arriving afterwards starts a new run.
FailedRunKeepsProcess ==
    /\ ProcessUp
    /\ \A r \in Slots :
          (PipelineRun(r) /\ run[r].error # "") =>
              /\ run[r].invoker \in {"cron", "http"}
              /\ run[r].pc = "threw"
              /\ nRuns < MaxRuns => \E s \in Slots : TriggerStartsRun(s)

\* C17 witness: a run started by the manual trigger threw, and a new
\* trigger is accepted afterwards.
FailedRunWitness ==
    \E r \in Slots :
        /\ PipelineRun(r) /\ run[r].invoker = "http"
        /\ run[r].pc = "threw" /\ run[r].error # ""
        /\ nRuns < MaxRuns
        /\ \E s \in Slots : TriggerStartsRun(s)

\* A step of the /trigger handler that started a run.
HttpRunStarted ==
    \E r \in Slots :
        /\ nRuns' = nRuns + 1
        /\ InFlight(r)' /\ run'[r].invoker = "http"

\* C18. The manual trigger is guarded by the shared secret: a request is
\* answered 200 and starts a pipeline run exactly when its secret equals
\* TRIGGER_SECRET; a request with a missing or a different secret is
\* answered 401, starts no run and changes nothing else.
TriggerGuardedBySecret ==
    /\ [](/\ http.status = 200 => http.secret = TRIGGER_SECRET(env)
          /\ http.status = 401 => http.secret # TRIGGER_SECRET(env)
          /\ (ProcessUp /\ NoneInFlight /\ nRuns < MaxRuns) =>
                \A s \in ProvidedSecrets :
                    /\ ENABLED (\E r \in Slots : HttpTrigger(r, s))
                    /\ (s = TRIGGER_SECRET(env)) <=>
                          ENABLED (\E r \in Slots :
                                      HttpTrigger(r, s) /\ HttpRunStarted))
    /\ [][/\ HttpRunStarted =>
                /\ http'.status = 200
                /\ http'.secret = TRIGGER_SECRET(env)
          /\ (http' # http /\ http'.status = 200) => HttpRunStarted
          /\ (http' # http /\ http'.status = 401) =>
                UNCHANGED <<env, logFile, igPosts, run, clock, nRuns,
                            openaiClient>>]_vars

\* C18 witness: after one run was started with the right secret and has
\* ended, a request with a wrong secret was answered 401.
TriggerGuardWitness ==
    /\ http.status = 401 /\ http.secret = Str("s3cret")
    /\ env.TRIGGER_SECRET = Undefined
    /\ nRuns = 1 /\ NoneInFlight
    /\ \E r \in Slots : PipelineRun(r) /\ run[r].invoker = "http"

\* C19. Weather is a soft dependency: for the validated walk of a pipeline
\* run fetchWeatherSummary returns a summary whatever happens inside it (the
\* fallback when the API key is missing, the request fails or no forecast is
\* for Sunday), never raises, and the run goes on to the caption and the
\* image request.
WeatherIsSoft ==
    \A r \in Slots :
        /\ run[r].error \notin {ErrWeatherCoords, ErrWeatherRequest}
        /\ run[r].pc = "fetchWeatherSummary" =>
              /\ \A o \in WeatherOutcomes :
                    LET res == fetchWeatherSummary(run[r].walk, o)
                    IN  /\ ~res.threw
                        /\ o # "forecast" => res.weather = "mock"
              /\ \A o \in WeatherOutcomes, len \in CaptionLengths :
                    ENABLED (/\ WeatherDone(r, o, len)
                             /\ run'[r].pc = "generateIllustration"
                             /\ run'[r].weather \in {"mock", "forecast"}
                             /\ run'[r].captionLength = len)
              /\ ~ENABLED (\E o \in WeatherOutcomes, len \in CaptionLengths :
                              /\ WeatherDone(r, o, len)
                              /\ run'[r].pc # "generateIllustration")
        /\ run[r].pc = "generateIllustration" =>
              run[r].weather \in {"mock", "forecast"} /\ run[r].captionLength > 0

\* C19 witness: a pipeline run got the fallback weather and has gone on to
\* request the image.
WeatherFallbackWitness ==
    \E r \in Slots :
        /\ PipelineRun(r) /\ run[r].pc = "generateIllustration"
        /\ run[r].weather = "mock" /\ run[r].walk # Undefined

\* The steps of a pipeline run in which the publishing collaborator has
\* been called, and those of logPost.
AtPublisher(r) ==
    run[r].pc \in {"createMediaContainer", "ig_sleep", "publishMediaContainer"}

AtLogPost(r) == run[r].pc \in {"log_mkdir", "log_appendFile"}

\* C20. Image generation is a hard dependency: when generateIllustration
\* throws, the pipeline run ends with that error; the publishing collaborator
\* is called and logPost is entered only in a run that holds an image, and
\* the run that failed has published nothing and has written no log record.
ImageIsHard ==
    \A r \in Slots :
        /\ (PipelineRun(r) /\ (AtPublisher(r) \/ AtLogPost(r))) => run[r].image
        /\ run[r].pc = "generateIllustration" =>
              /\ ENABLED (/\ ImageDone(r, FALSE)
                          /\ run'[r].pc = "threw" /\ run'[r].error = ErrImage)
              /\ ~ENABLED (ImageDone(r, FALSE) /\ run'[r].pc # "threw")
              /\ ~run[r].published /\ run[r].appended = 0
              /\ run[r].result = Undefined
              /\ logFile = run[r].logAtStart
        /\ run[r].error = ErrImage =>
              /\ PipelineRun(r) /\ run[r].pc = "threw"
              /\ ~run[r].published /\ run[r].appended = 0
              /\ run[r].result = Undefined /\ run[r].retval = Undefined
              /\ logFile = run[r].logAtStart

\* C20 witness: after a first run was published and logged, the second
\* run failed at the image and left the log as it was.
ImageFailureWitness ==
    \E r \in Slots :
        /\ PipelineRun(r) /\ run[r].pc = "threw" /\ run[r].error = ErrImage
        /\ nRuns = 2 /\ Len(igPosts) = 1
        /\ logFile.exists /\ logFile = run[r].logAtStart

\* The run record as it would be had the caption been within the limit.
WithShortCaption(rec) ==
    [rec EXCEPT !.captionLength = MaxCaptionLength, !.isValid = TRUE]

\* C21. Caption length is advisory: validateCaption is false exactly for a
\* caption of more than 2200 characters, the weather step is followed by the
\* image request for a caption of either length, and the later steps of a
\* run (image, container, publish) take the same course whether the caption
\* was found valid or not; no run ends because of its caption.
CaptionLengthAdvisory ==
    \A r \in Slots :
        /\ run[r].error # ErrCaptionTooLong
        /\ run[r].captionLength > 0 =>
              (run[r].isValid <=> run[r].captionLength <= 2200)
        /\ run[r].pc = "fetchWeatherSummary" =>
              \A o \in WeatherOutcomes, len \in CaptionLengths :
                  ENABLED (/\ WeatherDone(r, o, len)
                           /\ run'[r].pc = "generateIllustration"
                           /\ run'[r].captionLength = len
                           /\ run'[r].isValid = (len <= 2200))
        /\ run[r].pc = "generateIllustration" =>
              \A ok \in BOOLEAN :
                  OnImage(run[r], ok, env).pc
                      = OnImage(WithShortCaption(run[r]), ok, env).pc
        /\ run[r].pc = "createMediaContainer" =>
              \A ok \in BOOLEAN :
                  OnContainer(run[r], ok, "c").pc
                      = OnContainer(WithShortCaption(run[r]), ok, "c").pc
        /\ (run[r].pc = "publishMediaContainer" /\ ~run[r].isValid) =>
              ENABLED (PublishDone(r, TRUE) /\ run'[r].published)

\* C21 witness: a run whose caption had 2201 characters has published and
\* is writing its log record.
LongCaptionWitness ==
    \E r \in Slots :
        /\ PipelineRun(r) /\ run[r].pc = "log_appendFile"
        /\ run[r].captionLength = 2201 /\ ~run[r].isValid
        /\ run[r].published

\* C22. Run-once result: an invocation of publishSundayWalkPost that has
\* ended either threw (and returned nothing) or returned a record with
\* success = true; the record has mode 'development' and an image path
\* exactly when the run published nothing, mode 'production' and the id of
\* the post exactly when its publish succeeded; no record reports a failure.
RunOnceResult ==
    \A r \in Slots :
        PipelineRun(r) =>
            /\ run[r].retval # Undefined <=> run[r].pc = "returned"
            /\ run[r].pc = "threw" => run[r].error # ""
            /\ run[r].pc = "returned" =>
                  LET rec == run[r].retval
                  IN  /\ rec.success = TRUE
                      /\ rec.walk = Get(run[r].walk, "walk_title")
                      /\ rec.mode \in {"development", "production"}
                      /\ rec.mode = "development" <=> ~run[r].published
                      /\ rec.mode = "development" =>
                            DOMAIN rec = {"success", "mode", "walk", "image"}
                      /\ rec.mode = "production" =>
                            /\ DOMAIN rec = {"success", "mode", "walk", "postId"}
                            /\ Truthy(rec.postId)
                            /\ igPosts # <<>>
                            /\ rec.postId = Str(igPosts[Len(igPosts)].id)

\* C22 witness: the second of two runs published and returned its
\* production record, which carries the id of the second post.
RunOnceResultWitness ==
    \E r \in Slots :
        /\ PipelineRun(r) /\ run[r].pc = "returned"
        /\ run[r].retval.mode = "production"
        /\ Len(igPosts) = 2 /\ run[r].retval.postId = Str("ig-2")

\* C23. Overlapping runs can duplicate a pub: nothing stops an invoker from
\* starting a pipeline run while another one is in flight (the scheduled
\* task and an authorised manual trigger are both accepted whenever the
\* process is up), and each run accepts only a pub that is absent from the
\* list it read itself; so two overlapping runs can both accept, publish
\* and log the same pub (the witness).
OverlappingRunsAllowed ==
    /\ \A r \in Slots :
          (ProcessUp /\ FreeSlot(r) /\ nRuns < MaxRuns) =>
              /\ ENABLED (OverlapCron(r) /\ InFlight(r)')
              /\ ENABLED (OverlapHttp(r, TRIGGER_SECRET(env)) /\ InFlight(r)')
    /\ \A r \in Slots :
          (PipelineRun(r) /\ run[r].walk # Undefined) =>
              ~Includes(run[r].usedPubs, Get(run[r].walk, "end_pub_name"))

\* C23 witness: a scheduled run and a manual run overlapped (the second
\* started before the first had written its record), both accepted the same
\* pub, both published, and the log ends with two records naming that pub.
OverlapDuplicateWitness ==
    /\ \A r \in Slots :
          /\ PipelineRun(r) /\ run[r].pc = "returned"
          /\ run[r].published /\ run[r].appended = 1
          /\ run[r].logAtStart = OneRecordLog
    /\ run[1].invoker # run[2].invoker
    /\ Get(run[1].walk, "end_pub_name") = Get(run[2].walk, "end_pub_name")
    /\ Len(igPosts) = 2 /\ igPosts[1].pubName = igPosts[2].pubName
    /\ LET names == LogPubNames(logFile)
       IN  Len(names) = 3 /\ names[2] = names[3]

\* The place of a position of the pipeline in the order of its steps: walk
\* generation, weather (and caption), image, container or caption file,
\* pause, media_publish, log directory, log append, end.
StepOrder(pc) ==
    IF pc \in {"getUsedPubs", "openai_chat", "gbw_sleep"} THEN 1
    ELSE IF pc = "fetchWeatherSummary" THEN 2
    ELSE IF pc = "generateIllustration" THEN 3
    ELSE IF pc \in {"createMediaContainer", "dev_writeFile"} THEN 4
    ELSE IF pc = "ig_sleep" THEN 5
    ELSE IF pc = "publishMediaContainer" THEN 6
    ELSE IF pc = "log_mkdir" THEN 7
    ELSE IF pc = "log_appendFile" THEN 8
    ELSE 9

\* A step of the run in slot r that is not the start of a new invocation.
SameInvocation(r) == nRuns' = nRuns /\ run'[r].pc # run[r].pc

\* C24. Pipeline step order: a run goes through walk generation, weather
\* and caption, image, publish and log append in this order; a step is
\* entered only from the step before it, having completed (the walk, the
\* weather and caption, the image, the published post are there), no step
\* after walk generation is entered twice, and a run that ends at any step,
\* walk generation included, takes no later step.
PipelineStepOrder ==
    /\ [](\A r \in Slots :
             PipelineRun(r) =>
                 /\ StepOrder(run[r].pc) \in 2..8 => run[r].walk # Undefined
                 /\ StepOrder(run[r].pc) \in 3..8 =>
                       run[r].weather # "none" /\ run[r].captionLength > 0
                 /\ StepOrder(run[r].pc) \in 4..8 => run[r].image
                 /\ StepOrder(run[r].pc) \in 5..8 => run[r].containerId # Undefined
                 /\ StepOrder(run[r].pc) \in 7..8 => run[r].published
                 /\ StepOrder(run[r].pc) < 7 =>
                       ~run[r].published /\ run[r].appended = 0
                 /\ (run[r].pc = "threw" /\ run[r].walk = Undefined) =>
                       /\ ~run[r].published /\ run[r].appended = 0
                       /\ logFile = run[r].logAtStart)
    /\ [][\A r \in Slots :
             (PipelineRun(r) /\ SameInvocation(r)) =>
                 LET a == StepOrder(run[r].pc)
                     b == StepOrder(run'[r].pc)
                 IN  /\ a < 9
                     /\ \/ a = 1 /\ b = 1
                        \/ b = a + 1
                        \/ b = 9
                     /\ (a = 1 /\ run'[r].walk = Undefined) => b \in {1, 9}
                     /\ run[r].pc = "dev_writeFile" => b = 9]_vars

\* C24 witness: a run has gone through every step and returned after its
\* log append, and it needed more than one AI call to get its walk.
PipelineStepOrderWitness ==
    \E r \in Slots :
        /\ PipelineRun(r) /\ run[r].pc = "returned"
        /\ run[r].published /\ run[r].appended = 1
        /\ run[r].aiCalls = 2

\* C25. Two-phase publish: media_publish is requested only after the media
\* container was created, and with the id that the creation returned; when
\* the creation fails postToInstagram throws without a request to
\* media_publish; postToInstagram has a result only when the creation and
\* the publish both succeeded.
TwoPhasePublish ==
    /\ [](\A r \in Slots :
             /\ run[r].pc \in {"ig_sleep", "publishMediaContainer"} =>
                   Truthy(run[r].containerId)
             /\ run[r].pc = "publishMediaContainer" =>
                   run[r].creationId # Undefined
             /\ run[r].pc \in {"createMediaContainer", "ig_sleep"} =>
                   run[r].creationId = Undefined
             /\ run[r].creationId # Undefined =>
                   run[r].creationId = run[r].containerId
             /\ (PipelineRun(r) /\ run[r].result # Undefined) => run[r].published
             /\ run[r].pc = "createMediaContainer" =>
                   /\ ENABLED (ContainerDone(r, FALSE) /\ run'[r].pc = "threw")
                   /\ ~ENABLED (ContainerDone(r, FALSE) /\ run'[r].pc # "threw")
             /\ run[r].pc = "publishMediaContainer" =>
                   ~ENABLED (/\ PublishDone(r, FALSE)
                             /\ \/ run'[r].pc # "threw"
                                \/ run'[r].result # Undefined))
    /\ [][\A r \in Slots :
             /\ (run'[r].pc = "ig_sleep" /\ run[r].pc # "ig_sleep") =>
                   /\ run[r].pc = "createMediaContainer"
                   /\ run[r].containerId = Undefined
                   /\ Truthy(run'[r].containerId)
             /\ (run'[r].pc = "publishMediaContainer"
                   /\ run[r].pc # "publishMediaContainer") =>
                   /\ run[r].pc = "ig_sleep"
                   /\ run'[r].creationId = run[r].containerId
             /\ (run'[r].published /\ ~run[r].published) =>
                   /\ run[r].pc = "publishMediaContainer"
                   /\ run'[r].result # Undefined]_vars

\* C25 witness: the second post of the deployment is being published with
\* the id of the second container.
TwoPhasePublishWitness ==
    \E r \in Slots :
        /\ run[r].pc = "publishMediaContainer"
        /\ run[r].containerId = Str("container-2")
        /\ run[r].creationId = Str("container-2")

\* The pub named by the answer that the run in slot r has just received.
AnsweredPub(r) == Get(JSONparse(run'[r].lastContent), "end_pub_name")

\* C26. Fresh exclusion read per attempt: every attempt of generateWalk
\* reads the log as it is then, just before its AI call (one read per call,
\* and the list changes at no other time), and the answer of an attempt is
\* checked against the list read in that attempt; so a record appended
\* between two attempts is in the list of the later one.
FreshReadPerAttempt ==
    /\ [](\A r \in Slots :
             run[r].pc = "openai_chat" => run[r].aiCalls = run[r].attempt)
    /\ [][\A r \in Slots :
             /\ (run[r].pc = "getUsedPubs" /\ run'[r].pc # "getUsedPubs"
                   /\ run'[r].pc # "killed") =>
                   run'[r].usedPubs = getUsedPubs(logFile)
             /\ run'[r].aiCalls = run[r].aiCalls + 1 =>
                   /\ run[r].pc = "getUsedPubs" /\ run'[r].pc = "openai_chat"
                   /\ run'[r].attempt = run[r].attempt
             /\ (nRuns' = nRuns /\ run'[r].usedPubs # run[r].usedPubs) =>
                   run[r].pc = "getUsedPubs"
             /\ (run[r].pc = "openai_chat" /\ run'[r].pc # "openai_chat"
                   /\ run'[r].lastContent # Undefined
                   /\ JSONparses(run'[r].lastContent)) =>
                   /\ run'[r].usedPubs = run[r].usedPubs
                   /\ run'[r].collisions = run[r].collisions + 1
                         <=> Includes(run[r].usedPubs, AnsweredPub(r))
                   /\ run'[r].attempt = run[r].attempt + 1
                         <=> Includes(run[r].usedPubs, AnsweredPub(r))]_vars

\* C26 witness: the first attempt of a run read one record and its answer
\* collided; meanwhile the other run appended its record, and the second
\* attempt has read both.
FreshReadWitness ==
    \E r \in Slots :
        /\ PipelineRun(r) /\ run[r].pc = "openai_chat"
        /\ run[r].attempt = 2 /\ run[r].collisions = 1
        /\ run[r].logAtStart = OneRecordLog
        /\ Len(run[r].usedPubs) = 2
        /\ run[r].usedPubs = getUsedPubs(logFile)

\* The answer content is retried by generateWalk: it parses and names a pub
\* of the list read in this attempt.
Collides(r, content) ==
    JSONparses(content) /\ AlreadyUsed(run[r].usedPubs, JSONparse(content))

\* The error with which an attempt that got this answer ends, "" if none.
AttemptError(content, now) ==
    IF ~JSONparses(content) THEN ErrJSON
    ELSE LET f == formatWalkData(JSONparse(content), now)
         IN  IF f.ok THEN "" ELSE f.error

\* C27. Only a pub collision is retried: an attempt of generateWalk is
\* followed by a further attempt only when its answer named a pub of the
\* used list; a failed request, an answer that does not parse and an answer
\* that fails validation end the invocation with that error, after as many
\* AI calls as attempts were started.
OnlyCollisionRetried ==
    /\ [](\A r \in Slots :
             /\ run[r].pc \in {"getUsedPubs", "openai_chat"} =>
                   run[r].collisions = run[r].attempt - 1
             /\ run[r].pc = "openai_chat" =>
                   /\ LET res == OnAIError(run[r])
                      IN  /\ res.gwEnded = run[r].gwEnded + 1
                          /\ res.gwLast.result = ErrAIRequest
                          /\ res.gwLast.aiCalls = run[r].attempt
                   /\ \A content \in AIContents :
                         LET err == AttemptError(content, clock + 1)
                             res == OnAIContent(run[r], content, clock + 1)
                         IN  (~Collides(r, content) /\ err # "") =>
                                 /\ res.gwEnded = run[r].gwEnded + 1
                                 /\ res.gwLast.result = err
                                 /\ res.gwLast.aiCalls = run[r].attempt
                                 /\ res.gwLast.attempt = run[r].attempt
             /\ run[r].gwEnded > 0 =>
                   LET o == run[r].gwLast
                   IN  o.result \notin {"returned", ErrExhausted, ErrNoKey} =>
                           o.aiCalls = o.attempt /\ o.collisions = o.attempt - 1)
    /\ [][\A r \in Slots :
             /\ (run[r].pc = "openai_chat" /\ run'[r] # run[r]
                   /\ run'[r].pc # "killed") =>
                   \/ run'[r] = OnAIError(run[r])
                   \/ \E content \in AIContents :
                         run'[r] = OnAIContent([run[r] EXCEPT
                                                   !.lastContent = content],
                                               content, clock + 1)
             /\ (run[r].pc = "openai_chat" /\ run'[r].gwEnded = run[r].gwEnded
                   /\ run'[r].pc = "getUsedPubs") =>
                   /\ run'[r].attempt = run[r].attempt + 1
                   /\ Collides(r, run'[r].lastContent)]_vars

\* C27 witness: after one collision the second attempt's answer failed
\* validation and the invocation ended with that error after two AI calls.
OnlyCollisionRetriedWitness ==
    \E r \in Slots :
        /\ DirectGenerateWalk(r) /\ run[r].pc = "threw"
        /\ run[r].error = "Walk must have at least 4 direction steps"
        /\ run[r].gwLast.attempt = 2 /\ run[r].gwLast.aiCalls = 2
        /\ run[r].gwLast.collisions = 1

\* A step in which generateBestWalk calls generateWalk again, after an
\* earlier invocation of the same call of generateBestWalk has ended.
NextOptionStarts(r) ==
    /\ BestOfN(r) /\ nRuns' = nRuns
    /\ run'[r].pc = "getUsedPubs" /\ run'[r].attempt = 1
    /\ run'[r].gwEnded > 0
    /\ run[r].pc # "getUsedPubs" \/ run[r].attempt # 1

\* C28. Selector schedule: generateBestWalk(n) invokes generateWalk exactly
\* n times, one after another, whether the earlier invocations succeeded or
\* failed, and the pause lies between every two consecutive invocations: an
\* invocation after the first starts only when the pause is over.
\* (Violated: the pause is inside the try block after a successful
\* invocation; after an invocation that threw the next one starts at once.)
SelectorSchedule ==
    /\ [](\A r \in Slots :
             BestOfN(r) =>
                 /\ run[r].gwEnded <= run[r].options
                 /\ BestOfNOver(r) => run[r].gwEnded = run[r].options)
    /\ [][\A r \in Slots :
             NextOptionStarts(r) =>
                 /\ run'[r].gwEnded = run[r].gwEnded
                 /\ run[r].pc = "gbw_sleep"]_vars

\* What C29 calls a structurally valid proposal: every mandatory field is
\* there (whatever its value, 0 included), both coordinates are there and
\* not null, and there are lists of at least 2 highlights and 4 directions.
Present(v) == v # Undefined /\ v # Null

ValidProposal(w) ==
    /\ \A n \in 1..Len(RequiredFields) : Present(Get(w, RequiredFields[n]))
    /\ Present(Prop(Get(w, "location_coords"), "lat"))
    /\ Present(Prop(Get(w, "location_coords"), "lng"))
    /\ Length(Get(w, "highlights")) >= 2
    /\ Length(Get(w, "directions")) >= 4

\* C29. Validation accepts exactly the structurally valid proposals:
\* formatWalkData returns the proposal (with its id and slug) if and only
\* if the proposal is structurally valid, a proposal with latitude,
\* longitude, distance or duration 0 included.
\* (Violated: the checks are truthiness checks, so the value 0 counts as
\* missing; and .length is not checked to belong to a list.)
ValidationExact ==
    \A r \in Slots :
        run[r].entry = "formatWalkData" =>
            LET w == JSONparse(run[r].lastContent)
            IN  /\ run[r].pc = "returned" <=> ValidProposal(w)
                /\ run[r].pc = "returned" =>
                      \A f \in DOMAIN w : Get(run[r].walk, f) = w[f]

\* The pubName of every record in the log.
LoggedNames(file) ==
    {Get(JSONparse(file.lines[n]), "pubName") : n \in 1..Len(file.lines)}

\* C30. Exact-match dedup: the collision check treats a proposed pub name as
\* used if and only if it is character for character equal to a pubName in
\* the log; an answer that names a pub of the log is not accepted (the
\* attempt is followed by the next one, or the attempts are exhausted), and
\* an otherwise valid answer whose name differs from every logged name, be
\* it only in case, punctuation or whitespace, is accepted as the walk.
ExactMatchDedup ==
    /\ [](\A r \in Slots :
            run[r].pc = "openai_chat" =>
                \A p \in PubVariants :
                    AlreadyUsed(run[r].usedPubs, ValidWalkData(p))
                        <=> Str(p) \in LoggedNames(logFile))
    /\ [][\A r \in Slots :
            (run[r].pc = "openai_chat" /\ run'[r] # run[r]) =>
                IF AnsweredPub(r) \in LoggedNames(logFile)
                THEN /\ run'[r].gwLast.result # "returned"
                     /\ run'[r].collisions = run[r].collisions + 1
                     /\ \/ run'[r].pc = "getUsedPubs"
                           /\ run'[r].attempt = run[r].attempt + 1
                        \/ run'[r].pc = "threw"
                           /\ run[r].attempt = DefaultMaxAttempts
                ELSE /\ run'[r].pc = "fetchWeatherSummary"
                     /\ run'[r].walk.end_pub_name = AnsweredPub(r)
                     /\ run'[r].collisions = run[r].collisions]_vars

\* A name that differs from the used one only in case was accepted,
\* published and logged next to it.
ExactMatchDedupWitness ==
    /\ {Str("The Crown"), Str("the crown")} \subseteq LoggedNames(logFile)
    /\ \E r \in Slots :
          /\ run[r].pc = "returned"
          /\ run[r].logAtStart = OneRecordLog
          /\ run[r].published /\ run[r].appended = 1
          /\ run[r].walk.end_pub_name = Str("the crown")
          /\ run[r].collisions = 0

\* The prompt has a line for this pub in its exclusion section.
PromptNames(prompt, pub) ==
    \E n \in 1..Len(prompt.pubExclusion) : prompt.pubExclusion[n] = ExclusionItem(pub)

\* C31. Exclusion set is sent with every request: while a request to the AI
\* is outstanding, the prompt of that attempt was built from the used list
\* read in that attempt (which is the list the log gives), its exclusion
\* section starts with the instruction and names every pub of that list,
\* and it has no exclusion section when the list is empty.
ExclusionSentWithRequest ==
    \A r \in Slots :
        run[r].pc = "openai_chat" =>
            /\ run[r].usedPubs = getUsedPubs(logFile)
            /\ run[r].trace.prompt # Undefined
            /\ \A n \in 1..Len(run[r].usedPubs) :
                  PromptNames(run[r].trace.prompt, run[r].usedPubs[n])
            /\ run[r].usedPubs # <<>> =>
                  /\ run[r].trace.prompt.pubExclusion[1] = [text |-> ExclusionHeading]
                  /\ Len(run[r].trace.prompt.pubExclusion) = Len(run[r].usedPubs) + 3
            /\ run[r].usedPubs = <<>> => run[r].trace.prompt.pubExclusion = <<>>

\* A second attempt, after a collision, sends the used pub again.
ExclusionSentWitness ==
    \E r \in Slots :
        /\ run[r].pc = "openai_chat"
        /\ run[r].attempt = 2 /\ run[r].collisions = 1
        /\ run[r].usedPubs = <<Str("The Crown")>>
        /\ run[r].trace.prompt.pubExclusion =
              << [text |-> ExclusionHeading], ExclusionItem(Str("The Crown")),
                 [text |-> ""], [text |-> ExclusionClosing] >>

\* The walkId of the n-th record of the log.
WalkIdOf(file, n) == Get(JSONparse(file.lines[n]), "walkId")

\* C32. walkId is system-generated and unique: the id of every accepted
\* proposal is the one the system made from the clock when it accepted the
\* proposal, whatever the AI answered, and no two records of the Post Log
\* have the same walkId.  (Violated: formatWalkData spreads the AI's answer
\* over the generated id, so an "id" in the answer replaces it.)
WalkIdGeneratedAndUnique ==
    /\ \A r \in Slots :
          (PipelineRun(r) /\ run[r].walk # Undefined) =>
              /\ \E t \in 1..clock : run[r].walk.id = Str("walk-" \o ToString(t))
              /\ run[r].walk.id # Get(JSONparse(run[r].lastContent), "id")
    /\ \A m, n \in 1..Len(logFile.lines) :
          m # n => WalkIdOf(logFile, m) # WalkIdOf(logFile, n)

\* Every line of the log is a complete record.
WellFormedLog(file) ==
    file.exists /\ file.lines # <<>>
    /\ \A n \in 1..Len(file.lines) : JSONparses(file.lines[n])

\* The number of records of the log with this pubName.
EntriesNamed(file, pub) ==
    Cardinality({n \in 1..Len(file.lines) :
                    Get(JSONparse(file.lines[n]), "pubName") = pub})

SetOf(seq) == {seq[n] : n \in 1..Len(seq)}

ShowRun(r) == run[r].entry = "showUsedPubs"

\* C33. Log inspection is read-only and exact: no step of showUsedPubs
\* changes the Post Log; and for a well-formed log its report has, for each
\* distinct non-empty pubName, the number of records with that name, flags
\* exactly the pubs with more than one record, and counts as unique pubs
\* the pubs of the list getUsedPubs derives from the same log.
LogInspectionExact ==
    /\ [][\A r \in Slots :
            ((ShowRun(r) \/ run'[r].entry = "showUsedPubs") /\ run'[r] # run[r])
                => logFile' = logFile]_vars
    /\ [](\A r \in Slots :
            (ShowRun(r) /\ run[r].pc = "returned"
                        /\ WellFormedLog(run[r].logAtStart)) =>
                LET file   == run[r].logAtStart
                    report == run[r].retval
                    used   == SetOf(getUsedPubs(file))
                IN  /\ "visits" \in DOMAIN report
                    /\ report.total = Len(file.lines)
                    /\ DOMAIN report.visits = used
                    /\ \A p \in used : Truthy(p)
                    /\ \A p \in LoggedNames(file) : Truthy(p) => p \in used
                    /\ \A p \in used : report.visits[p] = EntriesNamed(file, p)
                    /\ report.flagged = {p \in used : EntriesNamed(file, p) > 1}
                    /\ report.unique = Cardinality(used)
                    /\ report.duplicates = Cardinality(report.flagged))

\* The inspection of a log with two records for The Crown.
LogInspectionWitness ==
    \E r \in Slots :
        /\ ShowRun(r) /\ run[r].pc = "returned"
        /\ WellFormedLog(run[r].logAtStart)
        /\ run[r].logAtStart = logFile
        /\ run[r].retval.total = 2
        /\ run[r].retval.visits = [p \in {Str("The Crown")} |-> 2]
        /\ run[r].retval.flagged = {Str("The Crown")}

\* The step sends a request of the kind that is awaited at `pc`.
Sends(r, pc) == run[r].pc # pc /\ run'[r].pc = pc

\* C34. AI-call budget of a run: generateBestWalk(n) makes at most 5 * n AI
\* calls in total, every one of its generator runs having the default
\* budget of 5; one pipeline run is generateBestWalk(1) and makes at most 5
\* AI text calls, at most one image request and at most one publish
\* request.  The counters count the requests: each request sent adds one.
AICallBudget ==
    /\ [](\A r \in Slots :
            /\ run[r].entry = "generateBestWalk" =>
                  /\ run[r].trace.aiTotal <= DefaultMaxAttempts * run[r].options
                  /\ run[r].aiCalls <= DefaultMaxAttempts
                  /\ run[r].pc \in {"getUsedPubs", "openai_chat"} =>
                        run[r].maxAttempts = DefaultMaxAttempts
            /\ PipelineRun(r) =>
                  /\ run[r].options = 1
                  /\ run[r].trace.aiTotal <= 5
                  /\ run[r].trace.imageCalls <= 1
                  /\ run[r].trace.publishCalls <= 1)
    /\ [][\A r \in Slots :
            /\ Sends(r, "openai_chat") =>
                  run'[r].trace.aiTotal = run[r].trace.aiTotal + 1
            /\ Sends(r, "generateIllustration") =>
                  run'[r].trace.imageCalls = run[r].trace.imageCalls + 1
            /\ Sends(r, "publishMediaContainer") =>
                  run'[r].trace.publishCalls = run[r].trace.publishCalls + 1]_vars

\* generateBestWalk(2) whose every answer named the used pub: its tenth AI
\* call is outstanding.
AICallBudgetWitness ==
    \E r \in Slots :
        /\ run[r].entry = "generateBestWalk" /\ run[r].options = 2
        /\ run[r].pc = "openai_chat"
        /\ run[r].i = 1 /\ run[r].attempt = 5
        /\ run[r].trace.aiTotal = 10

ForecastRun(r) == run[r].entry = "fetchWeatherSummary" /\ run[r].pc = "returned"

\* The entries of the list that are on this date, in order.
EntriesOn(list, date) == SelectSeq(list, LAMBDA item : item.date = date)

\* The target day is a Sunday strictly after today, 1 to 7 days ahead (7
\* when today is a Sunday), and the mock is used when no entry is on it.
TargetIsNextSunday(r) ==
    LET in == run[r].retval IN
    /\ getDay(in.picked.sunday) = 0
    /\ in.picked.sunday - in.today \in 1..7
    /\ (in.picked.sunday - in.today = 7) <=> (getDay(in.today) = 0)
    /\ (in.picked.weather = "mock") <=> (EntriesOn(in.list, in.picked.sunday) = <<>>)

\* C35 as stated. Target day of the forecast: the target is the next Sunday
\* and, when the forecast has entries on that date but none between 11:00
\* and 13:00, the first entry of that date is used.  (Violated: an entry at
\* 13:30 has hour 13 and is taken as the midday entry.)
TargetDayBetween11And13 ==
    \A r \in Slots :
        ForecastRun(r) =>
            LET in == run[r].retval
                on == EntriesOn(in.list, in.picked.sunday)
                between(f) == \/ f.hour \in {11, 12}
                              \/ f.hour = 13 /\ f.minute = 0
            IN  /\ TargetIsNextSunday(r)
                /\ (on # <<>> /\ \A n \in 1..Len(on) : ~between(on[n])) =>
                      in.picked.forecast = on[1]

\* C35. Target day of the forecast, amended: the target is a Sunday
\* strictly after today, 1 to 7 days ahead (7 when today is Sunday); with
\* no entry on that date the mock weather is used; with entries of which
\* none has an hour of day from 11 to 13 (11:00 to 13:59) the first entry
\* of that date is used, and otherwise the first entry with such an hour.
TargetDayOfForecast ==
    \A r \in Slots :
        ForecastRun(r) =>
            LET in == run[r].retval
                on == EntriesOn(in.list, in.picked.sunday)
                hourly(f) == f.hour \in 11..13
            IN  /\ TargetIsNextSunday(r)
                /\ (on # <<>> /\ \A n \in 1..Len(on) : ~hourly(on[n])) =>
                      in.picked.forecast = on[1]
                /\ \A n \in 1..Len(on) :
                      (hourly(on[n]) /\ \A m \in 1..(n - 1) : ~hourly(on[m])) =>
                          in.picked.forecast = on[n]

\* On a Sunday, a forecast for the Sunday a week later with an entry at
\* 9:00 and one at 13:30: the later one is used.
TargetDayWitness ==
    \E r \in Slots :
        /\ ForecastRun(r)
        /\ run[r].retval.today = 0
        /\ run[r].retval.picked.sunday = 7
        /\ run[r].retval.list = << [date |-> 7, hour |-> 9, minute |-> 0],
                                   [date |-> 7, hour |-> 13, minute |-> 30] >>
        /\ run[r].retval.picked.forecast = [date |-> 7, hour |-> 13, minute |-> 30]

VerifyRun(r) == run[r].entry = "verifySetup"

AccessChecks == <<"instagram", "openai", "weather">>

\* C36. Setup verification: verifySetup reports "All checks passed" if and
\* only if all four required environment variables are set (not empty) and
\* the Instagram, OpenAI and weather access checks were performed and all
\* returned true; when a required variable is missing no access check is
\* performed; and a failed check never ends the verification: the checks
\* that follow it are performed and the summary is printed.
SetupVerification ==
    /\ [](\A r \in Slots :
            VerifyRun(r) =>
                LET v == run[r].retval IN
                /\ run[r].pc \notin {"threw", "crashed"}
                /\ v.results.env <=> \A k \in RequiredVars : Truthy(env[k])
                /\ ~v.results.env => v.performed = <<>> /\ run[r].pc = "returned"
                /\ run[r].pc = "returned" =>
                      /\ v.report \in {"All checks passed", "Some checks failed"}
                      /\ v.results.env => v.performed = AccessChecks
                      /\ (v.report = "All checks passed") <=>
                            /\ \A k \in RequiredVars : Truthy(env[k])
                            /\ v.performed = AccessChecks
                            /\ v.results.instagram /\ v.results.openai
                            /\ v.results.weather)
    /\ [][\A r \in Slots :
            (VerifyRun(r) /\ run'[r] # run[r] /\ run'[r].entry = "verifySetup"
                /\ run[r].pc # "returned") =>
                /\ Len(run'[r].retval.performed) = Len(run[r].retval.performed) + 1
                /\ run'[r].retval.performed =
                      SubSeq(AccessChecks, 1, Len(run'[r].retval.performed))
                /\ (run'[r].pc = "returned") <=>
                      (run'[r].retval.performed = AccessChecks)]_vars

\* The Instagram check failed, the two checks after it were performed and
\* passed, and the summary reports a failure.
SetupVerificationWitness ==
    \E r \in Slots :
        /\ VerifyRun(r) /\ run[r].pc = "returned"
        /\ run[r].retval.results =
              [env |-> TRUE, instagram |-> FALSE, openai |-> TRUE, weather |-> TRUE]
        /\ run[r].retval.performed = AccessChecks
        /\ run[r].retval.report = "Some checks failed"

=============================================================================
